---- MODULE Spec2Model ----
(***************************************************************************)
(* Model of package urlsigner (HMAC signed, time-limited URLs) and of the   *)
(* helpers of packages utils, httputils and logger.                        *)
(*                                                                         *)
(* Strings are sequences of one-character strings, so that the library     *)
(* conversions the signer goes through (url.Parse, URL.Query,              *)
(* Values.Encode, URL.String, base64.RawURLEncoding, time.Format and       *)
(* time.Parse) are computed character by character and are not the         *)
(* identity.  The keyed hash is an ideal MAC: its tag is a collision-free  *)
(* function of the block-padded key and of the message.  Integers of 64    *)
(* bits are natural numbers in limbs of 16 bits.                           *)
(*                                                                         *)
(* Specifications: Spec (signing, tampering, verifying), SpecNew           *)
(* (construction over every key length), SpecExpiry (every duration, and   *)
(* the URLs the tests sign by hand), SpecAlgo (every algorithm name),      *)
(* SpecKey (the caller writes to its key slice), SpecConc (goroutines      *)
(* sharing one signer, each call split into its steps), SpecParams         *)
(* (parameters added to and removed from a signed URL), SpecKeys (a        *)
(* second signer over another key), SpecEnv (utils.GetIntEnv and           *)
(* utils.GetUintEnv), SpecDur (utils.GetDurationEnv), SpecPassword         *)
(* (utils.GenerateRandomPassword), SpecMem (MemorySize.String), SpecHTTP   *)
(* and SpecCookies (httputils.Response) and SpecLog (the close function    *)
(* of LogConfig.Setup).                                                    *)
(***************************************************************************)
EXTENDS Integers, Sequences, FiniteSets, TLC

\* ------------------------------------------------------------------ bounds
\* The injected clock starts at MinClock or MinClock + 1 and is advanced by
\* the caller up to MaxClock.
MinClock == 2
MaxClock == 5
\* Durations passed to Sign range over 0 .. MaxDuration, and in the runs on
\* expiry over -MaxDuration .. MaxDuration (the clock never starts below
\* MaxDuration, so no instant is negative).
MaxDuration == 2

\* ------------------------------------------------------- character strings
Printable ==
  << " ", "!", "dquote", "#", "$", "%", "&", "'", "(", ")", "*", "+", ",", "-",
     ".", "/", "0", "1", "2", "3", "4", "5", "6", "7", "8", "9", ":", ";",
     "<", "=", ">", "?", "@", "A", "B", "C", "D", "E", "F", "G", "H", "I",
     "J", "K", "L", "M", "N", "O", "P", "Q", "R", "S", "T", "U", "V", "W",
     "X", "Y", "Z", "[", "bslash", "]", "^", "_", "btick", "a", "b", "c", "d", "e",
     "f", "g", "h", "i", "j", "k", "l", "m", "n", "o", "p", "q", "r", "s",
     "t", "u", "v", "w", "x", "y", "z", "{", "|", "}", "~" >>

\* The byte value of a character (printable ASCII, 32 .. 126).
Ord == [c \in {Printable[i] : i \in 1..Len(Printable)} |->
          31 + CHOOSE i \in 1..Len(Printable) : Printable[i] = c]

Chr(n) == Printable[n - 31]

\* []byte(str), utils.UnsafeBytes(str)
UnsafeBytes(str) == [i \in 1..Len(str) |-> Ord[str[i]]]

Digits == <<"0", "1", "2", "3", "4", "5", "6", "7", "8", "9">>
UpperHex == <<"0", "1", "2", "3", "4", "5", "6", "7", "8", "9",
              "A", "B", "C", "D", "E", "F">>

IsDigit(c) == Ord[c] >= 48 /\ Ord[c] <= 57

\* strings.Index for a single character: 0 when absent.
IndexOf(str, c) ==
  IF \E i \in 1..Len(str) : str[i] = c
  THEN CHOOSE i \in 1..Len(str) : str[i] = c /\ \A j \in 1..(i - 1) : str[j] # c
  ELSE 0

Count(str, c) == Cardinality({i \in 1..Len(str) : str[i] = c})

\* strings.Cut(str, c): the text before and after the first c.
CutBefore(str, c) ==
  LET i == IndexOf(str, c)
  IN  IF i = 0 THEN str ELSE SubSeq(str, 1, i - 1)
CutAfter(str, c) ==
  LET i == IndexOf(str, c)
  IN  IF i = 0 THEN <<>> ELSE SubSeq(str, i + 1, Len(str))

\* Byte-wise string comparison, as the < of Go on strings.
StrLess(a, b) ==
  LET n == IF Len(a) < Len(b) THEN Len(a) ELSE Len(b)
      diff == {i \in 1..n : a[i] # b[i]}
      d == CHOOSE i \in diff : \A j \in diff : i <= j
  IN  IF diff = {} THEN Len(a) < Len(b) ELSE Ord[a[d]] < Ord[b[d]]

\* The concatenation of parts[lo] .. parts[hi].
RECURSIVE Flatten(_, _, _)
Flatten(parts, lo, hi) ==
  IF lo > hi THEN <<>>
  ELSE IF lo = hi THEN parts[lo]
  ELSE Flatten(parts, lo, (lo + hi) \div 2)
       \o Flatten(parts, ((lo + hi) \div 2) + 1, hi)

\* ------------------------------------------- encoding/base64 RawURLEncoding
B64Alphabet ==
  << "A", "B", "C", "D", "E", "F", "G", "H", "I", "J", "K", "L", "M", "N",
     "O", "P", "Q", "R", "S", "T", "U", "V", "W", "X", "Y", "Z", "a", "b",
     "c", "d", "e", "f", "g", "h", "i", "j", "k", "l", "m", "n", "o", "p",
     "q", "r", "s", "t", "u", "v", "w", "x", "y", "z", "0", "1", "2", "3",
     "4", "5", "6", "7", "8", "9", "-", "_" >>

B64Set == {B64Alphabet[i] : i \in 1..64}
B64Val == [c \in B64Set |-> (CHOOSE i \in 1..64 : B64Alphabet[i] = c) - 1]
B64Chr(n) == B64Alphabet[n + 1]

\* base64.RawURLEncoding.EncodeToString: three bytes give four characters,
\* a tail of one or two bytes gives two or three, without padding.
EncodeGroup(b) ==
  IF Len(b) = 1 THEN
    << B64Chr(b[1] \div 4), B64Chr((b[1] % 4) * 16) >>
  ELSE IF Len(b) = 2 THEN
    << B64Chr(b[1] \div 4), B64Chr((b[1] % 4) * 16 + b[2] \div 16),
       B64Chr((b[2] % 16) * 4) >>
  ELSE
    << B64Chr(b[1] \div 4), B64Chr((b[1] % 4) * 16 + b[2] \div 16),
       B64Chr((b[2] % 16) * 4 + b[3] \div 64), B64Chr(b[3] % 64) >>

Min(a, b) == IF a < b THEN a ELSE b

EncodeToString(b) ==
  LET groups == (Len(b) + 2) \div 3
      parts == [g \in 1..groups |->
                  EncodeGroup(SubSeq(b, 3 * g - 2, Min(3 * g, Len(b))))]
  IN  Flatten(parts, 1, groups)

\* base64.RawURLEncoding.DecodeString fails on a character outside the
\* alphabet and on a length of 1 modulo 4; the encoding is not strict, so
\* the unused low bits of the last character are ignored.
DecodeOK(s) ==
  /\ \A i \in 1..Len(s) : s[i] \in B64Set
  /\ Len(s) % 4 # 1

DecodeGroup(s) ==
  IF Len(s) = 2 THEN
    << B64Val[s[1]] * 4 + B64Val[s[2]] \div 16 >>
  ELSE IF Len(s) = 3 THEN
    << B64Val[s[1]] * 4 + B64Val[s[2]] \div 16,
       (B64Val[s[2]] % 16) * 16 + B64Val[s[3]] \div 4 >>
  ELSE
    << B64Val[s[1]] * 4 + B64Val[s[2]] \div 16,
       (B64Val[s[2]] % 16) * 16 + B64Val[s[3]] \div 4,
       (B64Val[s[3]] % 4) * 64 + B64Val[s[4]] >>

DecodeString(s) ==
  LET groups == (Len(s) + 3) \div 4
      parts == [g \in 1..groups |->
                  DecodeGroup(SubSeq(s, 4 * g - 3, Min(4 * g, Len(s))))]
  IN  Flatten(parts, 1, groups)

\* ------------------------------------------------------------------ net/url
IsHex(c) ==
  \/ IsDigit(c)
  \/ (Ord[c] >= 65 /\ Ord[c] <= 70)
  \/ (Ord[c] >= 97 /\ Ord[c] <= 102)

Unhex(c) ==
  IF IsDigit(c) THEN Ord[c] - 48
  ELSE IF Ord[c] >= 97 THEN Ord[c] - 97 + 10
  ELSE Ord[c] - 65 + 10

\* url.QueryUnescape fails on a % that is not followed by two hex digits.
UnescapeOK(str) ==
  \A i \in 1..Len(str) :
    str[i] = "%" => /\ i + 2 <= Len(str)
                    /\ IsHex(str[i + 1])
                    /\ IsHex(str[i + 2])

\* url.QueryUnescape: %XX becomes the byte XX and + becomes a space (the two
\* hex digits after a % give no output of their own); a string with neither
\* is returned as it is.
QueryUnescape(str) ==
  LET parts == [i \in 1..Len(str) |->
        IF (i > 1 /\ str[i - 1] = "%") \/ (i > 2 /\ str[i - 2] = "%")
        THEN <<>>
        ELSE IF str[i] = "%"
        THEN <<Chr(Unhex(str[i + 1]) * 16 + Unhex(str[i + 2]))>>
        ELSE IF str[i] = "+" THEN <<" ">>
        ELSE <<str[i]>>]
  IN  IF \A i \in 1..Len(str) : str[i] \notin {"%", "+"} THEN str
      ELSE Flatten(parts, 1, Len(str))

\* shouldEscape(c, encodeQueryComponent): letters, digits and - _ . ~ are
\* kept, every other byte is escaped.
ShouldEscape(c) ==
  ~ \/ IsDigit(c)
    \/ (Ord[c] >= 65 /\ Ord[c] <= 90)
    \/ (Ord[c] >= 97 /\ Ord[c] <= 122)
    \/ c \in {"-", "_", ".", "~"}

\* url.QueryEscape: a space becomes +, an escaped byte becomes %XX in
\* upper-case hex; a string with nothing to escape is returned as it is.
QueryEscape(str) ==
  LET parts == [i \in 1..Len(str) |->
        IF str[i] = " " THEN <<"+">>
        ELSE IF ShouldEscape(str[i])
        THEN <<"%", UpperHex[(Ord[str[i]] \div 16) + 1],
                    UpperHex[(Ord[str[i]] % 16) + 1]>>
        ELSE <<str[i]>>]
  IN  IF \A i \in 1..Len(str) : ~ShouldEscape(str[i]) THEN str
      ELSE Flatten(parts, 1, Len(str))

\* url.Values is a map from a key to the list of its values.
EmptyValues == [k \in {} |-> <<>>]

\* Values.Get: the first value of the key, "" when there is none.
Get(v, key) ==
  IF key \in DOMAIN v /\ Len(v[key]) > 0 THEN v[key][1] ELSE <<>>

\* Values.Set: the key gets the single value, replacing all it had.
Set(v, key, value) ==
  [k \in DOMAIN v \cup {key} |-> IF k = key THEN <<value>> ELSE v[k]]

\* Values.Add: m[key] = append(m[key], value)
Add(v, key, value) ==
  [k \in DOMAIN v \cup {key} |->
     IF k = key
     THEN (IF key \in DOMAIN v THEN Append(v[key], value) ELSE <<value>>)
     ELSE v[k]]

\* Values.Del: every value of the key is removed.
Del(v, key) == [k \in DOMAIN v \ {key} |-> v[k]]

\* url.parseQuery: the pairs are split at &; a pair with a semicolon, an
\* empty pair and a pair whose key or value does not unescape are dropped
\* (URL.Query ignores the error); the pair is cut at its first =.
RECURSIVE parseQuery(_, _)
parseQuery(m, query) ==
  IF query = <<>> THEN m
  ELSE
    LET pair == CutBefore(query, "&")
        rest == CutAfter(query, "&")
        rawKey == CutBefore(pair, "=")
        rawValue == CutAfter(pair, "=")
    IN  IF \/ IndexOf(pair, ";") # 0
           \/ pair = <<>>
           \/ ~UnescapeOK(rawKey)
           \/ ~UnescapeOK(rawValue)
        THEN parseQuery(m, rest)
        ELSE parseQuery(Add(m, QueryUnescape(rawKey), QueryUnescape(rawValue)),
                        rest)

\* URL.Query
Query(u) == parseQuery(EmptyValues, u.RawQuery)

\* The keys in increasing byte order (slices.Sorted(maps.Keys(v))).
RECURSIVE SortedKeys(_)
SortedKeys(S) ==
  IF S = {} THEN <<>>
  ELSE LET k == CHOOSE x \in S : \A o \in S \ {x} : StrLess(x, o)
       IN  <<k>> \o SortedKeys(S \ {k})

\* key=value for each value of one key, in the order of the values.
RECURSIVE EncodeKey(_, _)
EncodeKey(key, vs) ==
  IF vs = <<>> THEN <<>>
  ELSE <<QueryEscape(key) \o <<"=">> \o QueryEscape(Head(vs))>>
       \o EncodeKey(key, Tail(vs))

RECURSIVE EncodePairs(_, _)
EncodePairs(v, keys) ==
  IF keys = <<>> THEN <<>>
  ELSE EncodeKey(Head(keys), v[Head(keys)]) \o EncodePairs(v, Tail(keys))

RECURSIVE Join(_, _)
Join(strs, sep) ==
  IF strs = <<>> THEN <<>>
  ELSE IF Len(strs) = 1 THEN Head(strs)
  ELSE Head(strs) \o sep \o Join(Tail(strs), sep)

\* Values.Encode: "URL encoded" form sorted by key.
Encode(v) == Join(EncodePairs(v, SortedKeys(DOMAIN v)), <<"&">>)

IsLower(c) == Ord[c] >= 97 /\ Ord[c] <= 122

\* url.getScheme: the letters before the first colon, when the string starts
\* with letters followed by a colon.
SchemeLen(str) ==
  IF /\ IndexOf(str, ":") > 1
     /\ \A i \in 1..(IndexOf(str, ":") - 1) : IsLower(str[i])
  THEN IndexOf(str, ":") - 1
  ELSE 0

HasPrefix2(str, a, b) == Len(str) >= 2 /\ str[1] = a /\ str[2] = b

\* url.Parse for URLs of the form [scheme:][//host][/path][?query].  A final
\* lone ? sets ForceQuery and leaves RawQuery empty; otherwise the query is
\* what follows the first ?.  A host with a bad % escape is an error.
Parse(rawURL) ==
  LET n == SchemeLen(rawURL)
      scheme == SubSeq(rawURL, 1, n)
      rest0 == IF n = 0 THEN rawURL ELSE SubSeq(rawURL, n + 2, Len(rawURL))
      force == /\ Len(rest0) > 0
               /\ rest0[Len(rest0)] = "?"
               /\ Count(rest0, "?") = 1
      rest1 == IF force THEN SubSeq(rest0, 1, Len(rest0) - 1)
               ELSE CutBefore(rest0, "?")
      rawQuery == IF force THEN <<>> ELSE CutAfter(rest0, "?")
      hasAuth == HasPrefix2(rest1, "/", "/")
      afterSlashes == SubSeq(rest1, 3, Len(rest1))
      host == IF hasAuth THEN CutBefore(afterSlashes, "/") ELSE <<>>
      path == IF hasAuth
              THEN SubSeq(afterSlashes, Len(host) + 1, Len(afterSlashes))
              ELSE rest1
  IN  [err |-> ~UnescapeOK(host),
       u |-> [Scheme |-> scheme, Host |-> host, Path |-> path,
              ForceQuery |-> force, RawQuery |-> rawQuery]]

\* URL.String: scheme, ://host, path, then ? and the raw query when
\* ForceQuery is set or the raw query is not empty.
String(u) ==
  (IF u.Scheme # <<>> THEN u.Scheme \o <<":">> ELSE <<>>)
  \o (IF (u.Scheme # <<>> \/ u.Host # <<>>) /\ (u.Host # <<>> \/ u.Path # <<>>)
      THEN <<"/", "/">> \o u.Host ELSE <<>>)
  \o (IF u.Path # <<>> /\ u.Path[1] # "/" /\ u.Host # <<>> THEN <<"/">> ELSE <<>>)
  \o u.Path
  \o (IF u.ForceQuery \/ u.RawQuery # <<>> THEN <<"?">> \o u.RawQuery ELSE <<>>)

\* --------------------------------------------------------------------- time
\* Instants are clock ticks.  Time.Format(time.RFC3339Nano) writes an
\* instant without loss, with a colon between its fields and a final Z (UTC).
Format(t) == <<Digits[(t \div 10) + 1], ":", Digits[(t % 10) + 1], "Z">>

\* time.Parse(time.RFC3339Nano, value) fails on any other text.
TimeParseOK(str) ==
  /\ Len(str) = 4
  /\ IsDigit(str[1])
  /\ str[2] = ":"
  /\ IsDigit(str[3])
  /\ str[4] = "Z"

TimeParse(str) == (Ord[str[1]] - 48) * 10 + (Ord[str[3]] - 48)

\* -------------------------------------------------------------- crypto/hmac
\* Block size of the hash (SHA-256: 64 bytes).
BlockSize == 64

\* hmac.New: a key no longer than the block is padded with zero bytes to the
\* block size (longer keys do not occur: New refuses them).
PadKey(key) ==
  [i \in 1..BlockSize |-> IF i <= Len(key) THEN key[i] ELSE 0]

\* The tag of an ideal MAC: distinct (padded key, message) pairs give
\* distinct tags.
HMACSum(key, message) == PadKey(key) \o message

\* hmac.Equal
Equal(mac1, mac2) == mac1 = mac2

\* ---------------------------------------------------------------- urlsigner
Expiration == <<"e", "x", "p", "i", "r", "e", "s">>
Signature == <<"s", "i", "g", "n", "a", "t", "u", "r", "e">>

ErrNil == "nil"
ErrMissingSignature == "ErrMissingSignature"
ErrInvalidSignature == "ErrInvalidSignature"
ErrExpired == "ErrExpired"
Panic == "panic"

MinKeyLen == 32
MaxKeyLen == 64

\* Variant: the lower limit is off by one (a key of 32 bytes is refused).
KeyLenOK_OffByOne(key) == ~(Len(key) > MaxKeyLen \/ Len(key) <= MinKeyLen)

\* New panics on a key shorter than 32 or longer than 64 bytes.
KeyLenOK(key) == ~(Len(key) > MaxKeyLen \/ Len(key) < MinKeyLen)

\* Variant: a name that is not known falls back to SHA-256.
ParseHasher_Default(algo) ==
  CASE algo = "sha512/256" -> "sha512.New512_256"
    [] algo = "sha3-256" -> "sha3.New256"
    [] algo = "sha3-512" -> "sha3.New512"
    [] algo = "blake2b" -> "blake2b.New256"
    [] OTHER -> "sha256.New"

\* utils.ParseHasher: the constructor of the named hash; it panics on any
\* other name.
ParseHasher(algo) ==
  CASE algo = "sha256" -> "sha256.New"
    [] algo = "sha512/256" -> "sha512.New512_256"
    [] algo = "sha3-256" -> "sha3.New256"
    [] algo = "sha3-512" -> "sha3.New512"
    [] algo = "blake2b" -> "blake2b.New256"
    [] OTHER -> Panic

\* s.hasher(): the closure New built calls ParseHasher each time it is
\* invoked, and panics when ParseHasher does.
hasherPanics(s) == ParseHasher(s.algo) = Panic

\* HMACSigner.sumURLString: a fresh hash context over the key, fed the bytes
\* of the string.
sumURLString(s, str) == HMACSum(s.key, UnsafeBytes(str))

\* Sign: if duration != 0 { query.Set("expires", ...) }
WithExpires(query, now, duration) ==
  IF duration # 0 THEN Set(query, Expiration, Format(now + duration))
  ELSE query

\* u.RawQuery = query.Encode()
Canonical(url, query) == [url EXCEPT !.RawQuery = Encode(query)]

\* Sign: the signature is appended to the raw query.
AppendSignature(url, signature) ==
  [url EXCEPT !.RawQuery =
     IF Len(url.RawQuery) > 0
     THEN url.RawQuery \o <<"&">> \o Signature \o <<"=">> \o signature
     ELSE Signature \o <<"=">> \o signature]

\* Variant: the hash context is made before the URL string is parsed.
SignOp_HasherFirst(s, now, urlString, duration) ==
  LET p == Parse(urlString)
      query0 == Query(p.u)
      query == IF duration # 0
               THEN Set(query0, Expiration, Format(now + duration))
               ELSE query0
      u1 == [p.u EXCEPT !.RawQuery = Encode(query)]
      sigBytes == sumURLString(s, String(u1))
      signature == EncodeToString(sigBytes)
      u2 == [u1 EXCEPT !.RawQuery =
               IF Len(u1.RawQuery) > 0
               THEN u1.RawQuery \o <<"&">> \o Signature \o <<"=">> \o signature
               ELSE Signature \o <<"=">> \o signature]
  IN  IF hasherPanics(s) THEN [err |-> FALSE, out |-> <<>>, panic |-> TRUE]
      ELSE IF p.err THEN [err |-> TRUE, out |-> <<>>, panic |-> FALSE]
      ELSE [err |-> FALSE, out |-> String(u2), panic |-> FALSE]

\* Variant: the expiry is added after the `expires` values the input has.
SignOp_AddExpires(s, now, urlString, duration) ==
  LET p == Parse(urlString)
      query0 == Query(p.u)
      query == IF duration # 0
               THEN Add(query0, Expiration, Format(now + duration))
               ELSE query0
      u1 == [p.u EXCEPT !.RawQuery = Encode(query)]
      sigBytes == sumURLString(s, String(u1))
      signature == EncodeToString(sigBytes)
      u2 == [u1 EXCEPT !.RawQuery =
               IF Len(u1.RawQuery) > 0
               THEN u1.RawQuery \o <<"&">> \o Signature \o <<"=">> \o signature
               ELSE Signature \o <<"=">> \o signature]
  IN  IF p.err THEN [err |-> TRUE, out |-> <<>>, panic |-> FALSE]
      ELSE IF hasherPanics(s) THEN [err |-> FALSE, out |-> <<>>, panic |-> TRUE]
      ELSE [err |-> FALSE, out |-> String(u2), panic |-> FALSE]

\* HMACSigner.Sign from sumURLString on, for the URL object with its query
\* encoded: the tag of its string, encoded, is appended and the string of
\* the object is returned.
SignCanonical(s, url) ==
  String(AppendSignature(url,
                         EncodeToString(sumURLString(s, String(url)))))

\* HMACSigner.Sign: the error flag, the string returned, and whether the
\* call panicked instead of returning.
SignOp(s, now, urlString, duration) ==
  LET p == Parse(urlString)
  IN  IF p.err THEN [err |-> TRUE, out |-> <<>>, panic |-> FALSE]
      ELSE IF hasherPanics(s) THEN [err |-> FALSE, out |-> <<>>, panic |-> TRUE]
      ELSE [err |-> FALSE,
            out |-> SignCanonical(s, Canonical(p.u,
                                     WithExpires(Query(p.u), now, duration))),
            panic |-> FALSE]

\* Variant: the empty signature is not checked for and goes on to be decoded.
extractAndDecodeSignature_NoEmptyCheck(query) ==
  LET signature == Get(query, Signature)
  IN  IF ~DecodeOK(signature)
      THEN [sigBytes |-> <<>>, query |-> query, err |-> ErrInvalidSignature]
      ELSE [sigBytes |-> DecodeString(signature),
            query |-> Del(query, Signature), err |-> ErrNil]

\* Variant: the decoder's own error is returned for a malformed signature.
extractAndDecodeSignature_DecodeErr(query) ==
  LET signature == Get(query, Signature)
  IN  IF signature = <<>>
      THEN [sigBytes |-> <<>>, query |-> query, err |-> ErrMissingSignature]
      ELSE IF ~DecodeOK(signature)
      THEN [sigBytes |-> <<>>, query |-> query, err |-> "CorruptInputError"]
      ELSE [sigBytes |-> DecodeString(signature),
            query |-> Del(query, Signature), err |-> ErrNil]

\* HMACSigner.extractAndDecodeSignature
extractAndDecodeSignature(query) ==
  LET signature == Get(query, Signature)
  IN  IF signature = <<>>
      THEN [sigBytes |-> <<>>, query |-> query, err |-> ErrMissingSignature]
      ELSE IF ~DecodeOK(signature)
      THEN [sigBytes |-> <<>>, query |-> query, err |-> ErrInvalidSignature]
      ELSE [sigBytes |-> DecodeString(signature),
            query |-> Del(query, Signature), err |-> ErrNil]

\* HMACSigner.verifyMAC
verifyMAC(s, original, sigBytes) == Equal(sigBytes, sumURLString(s, original))

\* Variant: the error of time.Parse is returned to the caller.
verifyExpiration_ParseErr(now, query) ==
  IF Len(Get(query, Expiration)) = 0 THEN ErrNil
  ELSE IF ~TimeParseOK(Get(query, Expiration)) THEN "ParseError"
  ELSE IF TimeParse(Get(query, Expiration)) < now THEN ErrExpired
  ELSE ErrNil

\* HMACSigner.verifyExpiration: the clock is read only for a parsed expiry.
verifyExpiration(now, query) ==
  IF Len(Get(query, Expiration)) = 0 THEN ErrNil
  ELSE IF ~TimeParseOK(Get(query, Expiration)) THEN Panic
  ELSE IF TimeParse(Get(query, Expiration)) < now THEN ErrExpired
  ELSE ErrNil

\* HMACSigner.verifyExpiration calls s.now() once `expires` is there and is
\* an instant.
readsNow(query) ==
  Len(Get(query, Expiration)) # 0 /\ TimeParseOK(Get(query, Expiration))

\* The raw query without its signature pairs, the other pairs as they stand.
RECURSIVE StripSignature(_)
StripSignature(query) ==
  IF query = <<>> THEN <<>>
  ELSE IF CutBefore(CutBefore(query, "&"), "=") = Signature
  THEN StripSignature(CutAfter(query, "&"))
  ELSE IF StripSignature(CutAfter(query, "&")) = <<>>
  THEN CutBefore(query, "&")
  ELSE CutBefore(query, "&") \o <<"&">> \o StripSignature(CutAfter(query, "&"))

\* Variant: the signature is cut out of the raw query, which is not encoded
\* again, so the message keeps the order in which the parameters arrived.
VerifyOp_NoCanonical(s, now, u) ==
  LET ex == extractAndDecodeSignature(Query(u))
      u1 == [u EXCEPT !.RawQuery = StripSignature(u.RawQuery)]
  IN  IF ex.err # ErrNil THEN [err |-> ex.err, u |-> u, read |-> FALSE]
      ELSE IF hasherPanics(s) THEN [err |-> Panic, u |-> u1, read |-> FALSE]
      ELSE IF ~verifyMAC(s, String(u1), ex.sigBytes)
      THEN [err |-> ErrInvalidSignature, u |-> u1, read |-> FALSE]
      ELSE [err |-> verifyExpiration(now, ex.query), u |-> u1,
            read |-> readsNow(ex.query)]

\* Variant: the expiry is checked as soon as the signature is decoded, before
\* the signature is compared.
VerifyOp_ExpiryFirst(s, now, u) ==
  LET ex == extractAndDecodeSignature(Query(u))
      u1 == [u EXCEPT !.RawQuery = Encode(ex.query)]
  IN  IF ex.err # ErrNil THEN [err |-> ex.err, u |-> u, read |-> FALSE]
      ELSE IF verifyExpiration(now, ex.query) # ErrNil
      THEN [err |-> verifyExpiration(now, ex.query), u |-> u1,
            read |-> readsNow(ex.query)]
      ELSE IF hasherPanics(s)
      THEN [err |-> Panic, u |-> u1, read |-> readsNow(ex.query)]
      ELSE IF ~verifyMAC(s, String(u1), ex.sigBytes)
      THEN [err |-> ErrInvalidSignature, u |-> u1,
            read |-> readsNow(ex.query)]
      ELSE [err |-> ErrNil, u |-> u1, read |-> readsNow(ex.query)]

\* HMACSigner.Verify: the error returned, the URL object as the call leaves
\* it (u.RawQuery is assigned once the signature is decoded), and whether
\* the call read the clock.
VerifyOp(s, now, u) ==
  LET ex == extractAndDecodeSignature(Query(u))
      u1 == [u EXCEPT !.RawQuery = Encode(ex.query)]
  IN  IF ex.err # ErrNil THEN [err |-> ex.err, u |-> u, read |-> FALSE]
      ELSE IF hasherPanics(s) THEN [err |-> Panic, u |-> u1, read |-> FALSE]
      ELSE IF ~verifyMAC(s, String(u1), ex.sigBytes)
      THEN [err |-> ErrInvalidSignature, u |-> u1, read |-> FALSE]
      ELSE [err |-> verifyExpiration(now, ex.query), u |-> u1,
            read |-> readsNow(ex.query)]

\* ------------------------------------------------------------------- inputs
\* A key of n bytes, each equal to fill.
Key(n, fill) == [i \in 1..n |-> fill]

\* Keys tried in the signing runs: one the signer accepts, one too short and
\* one too long.
SampleKeys ==
  { Key(MinKeyLen - 1, 0), Key(MinKeyLen, 0), Key(MaxKeyLen + 1, 1) }

\* Largest key length tried in the construction runs.
MaxTriedKeyLen == 66
AllKeys == { Key(n, fill) : n \in 0..MaxTriedKeyLen, fill \in {0, 1} }

Base == <<"w", "s", ":", "/", "/", "h", "/", "p">>
WithQuery(q) == Base \o <<"?">> \o q

qA1 == <<"a", "=", "1">>
qBA == <<"b", "=", "2", "&", "a", "=", "1">>
qDup == <<"a", "=", "1", "&", "a", "=", "2">>
qEsc == <<"a", "=", "1", "+", ":">>
qSemi == <<"a", ";", "b", "&", "b", "=", "1">>
qExpPast == Expiration \o <<"=", "0", ":", "1", "Z">>
qExpBad == Expiration \o <<"=", "z", "z">>
qSigEmpty == <<"a", "=", "1", "&">> \o Signature \o <<"=">>
qSigB64 == Signature \o <<"=", "A", "A">>
qSigBad == Signature \o <<"=", "*", "*">>

\* URL strings given to Sign.
SignInputs ==
  { Base, Base \o <<"?">>, <<"w", "s", ":", "/", "/", "%", "z", "z">> }
  \cup { WithQuery(q) : q \in { qA1, qBA, qDup, qEsc, qSemi, qExpPast,
                                qExpBad, qSigEmpty, qSigB64, qSigBad } }

\* URL strings a caller parses and hands to Verify without signing them.
CraftedInputs ==
  { Base, WithQuery(qA1), WithQuery(qExpPast), WithQuery(qExpBad),
    WithQuery(qSigEmpty), WithQuery(qSigB64), WithQuery(qSigBad),
    WithQuery(Signature \o <<"=", "A", "A", "A", "A", "A">>),
    WithQuery(qSigBad \o <<"&">> \o qExpPast),
    WithQuery(qSigBad \o <<"&">> \o qExpBad),
    WithQuery(Signature \o <<"=", "&">> \o qExpPast),
    WithQuery(Signature \o <<"=", "&">> \o qSigB64),
    WithQuery(qSigB64 \o <<"&">> \o qExpBad) }

Durations == 0..MaxDuration
SignedDurations == (-MaxDuration)..MaxDuration

\* URL strings the tests parse and then sign by hand: an `expires` that is
\* no instant after another parameter and before one, an empty `expires`,
\* and an `expires` equal to the clock, escaped and as it is formatted.
qHExpBad == <<"h", "=", "1", "&">> \o qExpBad
qAExpBad == qA1 \o <<"&">> \o qExpBad
qExpEmpty == Expiration \o <<"=">>
qExpNowEscaped == Expiration \o <<"=">> \o QueryEscape(Format(MinClock))
qExpNow == Expiration \o <<"=">> \o Format(MinClock)
SelfSignedInputs ==
  { WithQuery(q) : q \in { qHExpBad, qAExpBad, qExpBad, qExpEmpty,
                           qExpNowEscaped, qExpNow } }

\* Algorithm names given to New: the names ParseHasher knows, the names the
\* package documentation lists, and one that is neither.
AlgoNames ==
  { "sha256", "sha512/256", "sha3-256", "sha3-512", "blake2b",
    "blake2b-256", "blake2b-512", "md5" }

\* URL strings given to Sign in the runs over the algorithms and over the
\* caller's key slice.
AlgoInputs ==
  { Base, WithQuery(qBA), <<"w", "s", ":", "/", "/", "%", "z", "z">> }

\* Values a caller may write over a query parameter's value.
TamperValues ==
  { <<>>, <<"1">>, <<"2">>, <<"z", "z">>, <<"9", ":", "9", "Z">> }

Schemes == { <<"w", "s">>, <<"w", "s", "s">> }
Hosts == { <<"h">>, <<"g">> }
Paths == { <<"/", "p">>, <<"/", "q">>, <<>> }

\* A caller may call Verify this many times on one URL object.
MaxVerifies == 2

\* -------------------------------------------------------------------- state
VARIABLES
  keyBytes,     \* the byte slice the caller passed to New
  signer,       \* the *HMACSigner New returned (its hasher closure holds
                \* the algorithm name and the slice keyBytes)
  newPanicked,  \* New aborted
  clock,        \* the instant the injected now() returns
  input,        \* the arguments of the Sign call and the clock it read
  signed,       \* what Sign returned: the error flag and the URL string
  u,            \* the *url.URL object the caller holds
  origin,       \* "none", or how u was made: "signed" or "crafted"
  tamper,       \* what the caller changed in u after parsing it
  calls,        \* the Verify calls on u: input, clock, error, u afterwards
                \* and whether the call read the clock
  newKey,       \* history: the bytes of keyBytes at the time New was called
  procs,        \* concurrent runs: the call each goroutine makes, where it
                \* stands in it, its locals and what it returned
  ctxs,         \* concurrent runs: the bytes written to each hash context
  env,          \* environment runs: the variable the provider looks up
  got,          \* environment runs: the Get*Env call made and its outcome
  reader,       \* password runs: the bytes crypto/rand.Reader delivers
  pw,           \* password runs: the locals of GenerateRandomPassword and
                \* what it returned
  rr,           \* HTTP runs: the http.ResponseWriter (a ResponseRecorder)
  resps,        \* HTTP runs: the Response values the handler holds
  arrays,       \* HTTP runs: the backing arrays of the cookie slices
  mem,          \* formatting runs: the MemorySize printed and the string
  once,         \* logger runs: the sync.Once of the close function
  file,         \* logger runs: the log file
  buffer,       \* logger runs: the bufio.Writer in front of the file
  closers       \* logger runs: the goroutines that call the close function

vars == <<keyBytes, signer, newPanicked, clock, input, signed, u, origin,
          tamper, calls, newKey, procs, ctxs, env, got, reader, pw, rr,
          resps, arrays, mem, once, file, buffer, closers>>

\* The variables of each package, for the actions of the other packages.
signerVars == <<keyBytes, signer, newPanicked, clock, input, signed, u,
                origin, tamper, calls, newKey, procs, ctxs>>
envVars == <<env, got>>
passVars == <<reader, pw>>
httpVars == <<rr, resps, arrays>>
logVars == <<once, file, buffer, closers>>

NoSigner == [ok |-> FALSE, algo |-> ""]
NoURL == [Scheme |-> <<>>, Host |-> <<>>, Path |-> <<>>,
          ForceQuery |-> FALSE, RawQuery |-> <<>>]
NoInput == [called |-> FALSE, url |-> <<>>, dur |-> 0, t |-> 0]
NoOutput == [err |-> FALSE, out |-> <<>>, panic |-> FALSE]

\* Values of the variables of the concurrent and of the environment runs
\* while no such run is under way.
NoProcs == <<>>
NoCtxs == <<>>
NoEnv == [exists |-> FALSE, value |-> <<>>]
NoGot == [called |-> FALSE, signed |-> FALSE, bits |-> 0, def |-> 0,
          panic |-> FALSE, val |-> 0]

\* Values of the variables of the other packages while none of their
\* functions has been called.
NoReader == [seed |-> 0, stride |-> 0, failAt |-> 0, reads |-> 0]
NoPw == [pc |-> "idle", length |-> 0, password |-> <<>>, i |-> 0,
         err |-> FALSE, arg |-> 0]
NoPasswordRun == reader = NoReader /\ pw = NoPw
NoHTTPRun == rr = <<>> /\ resps = <<>> /\ arrays = <<>>
NoMemRun == mem = <<>>
NoLogRun == once = <<>> /\ file = <<>> /\ buffer = <<>> /\ closers = <<>>

\* What the hasher closure of the signer reads when it is invoked.
Hasher == [algo |-> signer.algo, key |-> keyBytes]

Init ==
  /\ keyBytes = <<>>
  /\ signer = NoSigner
  /\ newPanicked = FALSE
  /\ clock = MinClock
  /\ input = NoInput
  /\ signed = NoOutput
  /\ u = NoURL
  /\ origin = "none"
  /\ tamper = "none"
  /\ calls = <<>>
  /\ newKey = <<>>
  /\ procs = NoProcs
  /\ ctxs = NoCtxs
  /\ env = NoEnv
  /\ got = NoGot
  /\ NoPasswordRun
  /\ NoHTTPRun
  /\ NoMemRun
  /\ NoLogRun

\* New(algo, keyBytes, now): panics on a key of the wrong length, otherwise
\* returns a signer that holds the clock and a hash factory over the key.
New(algo, key) ==
  /\ ~signer.ok
  /\ ~newPanicked
  /\ keyBytes' = key
  /\ IF KeyLenOK(key)
     THEN /\ signer' = [ok |-> TRUE, algo |-> algo]
          /\ UNCHANGED newPanicked
     ELSE /\ newPanicked' = TRUE
          /\ UNCHANGED signer
  /\ newKey' = key
  /\ UNCHANGED <<clock, input, signed, u, origin, tamper, calls,
               procs, ctxs, env, got,
               passVars, httpVars, mem, logVars>>

\* s.Sign(urlString, duration)
Sign(urlString, duration) ==
  /\ signer.ok
  /\ ~input.called
  /\ origin = "none"
  /\ input' = [called |-> TRUE, url |-> urlString, dur |-> duration,
               t |-> clock]
  /\ signed' = SignOp(Hasher, clock, urlString, duration)
  /\ UNCHANGED <<keyBytes, signer, newPanicked, clock, u, origin, tamper, calls,
               newKey, procs, ctxs, env, got,
               passVars, httpVars, mem, logVars>>

\* u, _ := url.Parse(signed)
ParseSigned ==
  /\ input.called
  /\ ~signed.err
  /\ ~signed.panic
  /\ origin = "none"
  /\ ~Parse(signed.out).err
  /\ u' = Parse(signed.out).u
  /\ origin' = "signed"
  /\ UNCHANGED <<keyBytes, signer, newPanicked, clock, input, signed, tamper, calls,
               newKey, procs, ctxs, env, got,
               passVars, httpVars, mem, logVars>>

\* u, _ := url.Parse(rawURL) for a URL that was never signed
ParseCrafted(rawURL) ==
  /\ signer.ok
  /\ ~input.called
  /\ origin = "none"
  /\ ~Parse(rawURL).err
  /\ u' = Parse(rawURL).u
  /\ origin' = "crafted"
  /\ UNCHANGED <<keyBytes, signer, newPanicked, clock, input, signed, tamper, calls,
               newKey, procs, ctxs, env, got,
               passVars, httpVars, mem, logVars>>

\* The tests sign the URL they parsed by hand, over the string of the URL
\* as it was parsed: h := s.hasher(); h.Write([]byte(u.String()));
\* q := u.Query(); q.Set(Signature, sig); u.RawQuery = q.Encode()
SelfSign ==
  /\ signer.ok
  /\ origin = "crafted"
  /\ calls = <<>>
  /\ ~hasherPanics(Hasher)
  /\ u' = [u EXCEPT !.RawQuery =
             Encode(Set(Query(u), Signature,
                        EncodeToString(sumURLString(Hasher, String(u)))))]
  /\ origin' = "selfsigned"
  /\ UNCHANGED <<keyBytes, signer, newPanicked, clock, input, signed, tamper, calls,
               newKey, procs, ctxs, env, got,
               passVars, httpVars, mem, logVars>>

\* The test sets s.now to a later instant, before it verifies.
Tick ==
  /\ signer.ok
  /\ origin # "none"
  /\ calls = <<>>
  /\ clock < MaxClock
  /\ clock' = clock + 1
  /\ UNCHANGED <<keyBytes, signer, newPanicked, input, signed, u, origin, tamper, calls,
               newKey, procs, ctxs, env, got,
               passVars, httpVars, mem, logVars>>

CanTamper == origin = "signed" /\ tamper = "none" /\ calls = <<>>

\* q := u.Query(); q[key][j] = value; u.RawQuery = q.Encode()
TamperValue ==
  /\ CanTamper
  /\ \E key \in DOMAIN Query(u) \ {Signature} :
       \E j \in 1..Len(Query(u)[key]) :
         \E value \in TamperValues \ {Query(u)[key][j]} :
           u' = [u EXCEPT !.RawQuery =
                   Encode([Query(u) EXCEPT ![key] = [@ EXCEPT ![j] = value]])]
  /\ tamper' = "value"
  /\ UNCHANGED <<keyBytes, signer, newPanicked, clock, input, signed, origin, calls,
               newKey, procs, ctxs, env, got,
               passVars, httpVars, mem, logVars>>

TamperScheme(scheme) ==
  /\ CanTamper
  /\ scheme # u.Scheme
  /\ u' = [u EXCEPT !.Scheme = scheme]
  /\ tamper' = "scheme"
  /\ UNCHANGED <<keyBytes, signer, newPanicked, clock, input, signed, origin, calls,
               newKey, procs, ctxs, env, got,
               passVars, httpVars, mem, logVars>>

TamperHost(host) ==
  /\ CanTamper
  /\ host # u.Host
  /\ u' = [u EXCEPT !.Host = host]
  /\ tamper' = "host"
  /\ UNCHANGED <<keyBytes, signer, newPanicked, clock, input, signed, origin, calls,
               newKey, procs, ctxs, env, got,
               passVars, httpVars, mem, logVars>>

TamperPath(path) ==
  /\ CanTamper
  /\ path # u.Path
  /\ u' = [u EXCEPT !.Path = path]
  /\ tamper' = "path"
  /\ UNCHANGED <<keyBytes, signer, newPanicked, clock, input, signed, origin, calls,
               newKey, procs, ctxs, env, got,
               passVars, httpVars, mem, logVars>>

\* The key=value pairs of a raw query, in their order (strings.Split at &).
RECURSIVE SplitPairs(_)
SplitPairs(query) ==
  IF IndexOf(query, "&") = 0 THEN <<query>>
  ELSE <<CutBefore(query, "&")>> \o SplitPairs(CutAfter(query, "&"))

\* The orders in which n pairs can be arranged.
Orderings(n) == Permutations(1..n)

\* An intermediate layer reorders the key=value pairs of the query.
Reorder ==
  /\ CanTamper
  /\ LET pairs == SplitPairs(u.RawQuery)
     IN  \E perm \in Orderings(Len(pairs)) :
           /\ \E i \in 1..Len(pairs) : pairs[perm[i]] # pairs[i]
           /\ u' = [u EXCEPT !.RawQuery =
                      Join([i \in 1..Len(pairs) |-> pairs[perm[i]]], <<"&">>)]
  /\ tamper' = "reorder"
  /\ UNCHANGED <<keyBytes, signer, newPanicked, clock, input, signed, origin, calls,
               newKey, procs, ctxs, env, got,
               passVars, httpVars, mem, logVars>>

\* err := s.Verify(u)
Verify ==
  /\ signer.ok
  /\ origin # "none"
  /\ Len(calls) < MaxVerifies
  /\ LET r == VerifyOp(Hasher, clock, u)
     IN  /\ calls' = Append(calls, [before |-> u, now |-> clock,
                                    err |-> r.err, after |-> r.u,
                                    read |-> r.read])
         /\ u' = r.u
  /\ UNCHANGED <<keyBytes, signer, newPanicked, clock, input, signed, origin, tamper,
               newKey, procs, ctxs, env, got,
               passVars, httpVars, mem, logVars>>

Next ==
  \/ \E key \in SampleKeys : New("sha256", key)
  \/ \E urlString \in SignInputs, duration \in Durations :
       Sign(urlString, duration)
  \/ ParseSigned
  \/ \E rawURL \in CraftedInputs : ParseCrafted(rawURL)
  \/ Tick
  \/ TamperValue
  \/ \E scheme \in Schemes : TamperScheme(scheme)
  \/ \E host \in Hosts : TamperHost(host)
  \/ \E path \in Paths : TamperPath(path)
  \/ Reorder
  \/ Verify

Spec == Init /\ [][Next]_vars

\* Signing with every duration, and the URLs the tests sign by hand.
NextExpiry ==
  \/ New("sha256", Key(MinKeyLen, 0))
  \/ \E urlString \in SignInputs, duration \in SignedDurations :
       Sign(urlString, duration)
  \/ ParseSigned
  \/ \E rawURL \in SelfSignedInputs : ParseCrafted(rawURL)
  \/ SelfSign
  \/ Tick
  \/ Verify

SpecExpiry == Init /\ [][NextExpiry]_vars

\* A caller that recovered from the panic of Sign goes on using the signer.
Recover ==
  /\ signed.panic
  /\ input' = NoInput
  /\ signed' = NoOutput
  /\ UNCHANGED <<keyBytes, signer, newPanicked, clock, u, origin, tamper, calls,
               newKey, procs, ctxs, env, got,
               passVars, httpVars, mem, logVars>>

\* Signing and verifying under every algorithm name.
NextAlgo ==
  \/ \E algo \in AlgoNames : New(algo, Key(MinKeyLen, 0))
  \/ \E urlString \in AlgoInputs, duration \in Durations :
       Sign(urlString, duration)
  \/ Recover
  \/ ParseSigned
  \/ \E rawURL \in CraftedInputs : ParseCrafted(rawURL)
  \/ Verify

SpecAlgo == Init /\ [][NextAlgo]_vars

\* The caller writes to the slice it passed to New: keyBytes[i] ^= 1
MutateKey ==
  /\ signer.ok
  /\ keyBytes = newKey
  /\ \E i \in {1, Len(keyBytes)} :
       keyBytes' = [keyBytes EXCEPT ![i] = 1 - @]
  /\ UNCHANGED <<signer, newPanicked, clock, input, signed, u, origin, tamper, calls,
               newKey, procs, ctxs, env, got,
               passVars, httpVars, mem, logVars>>

\* Signing and verifying while the caller keeps writing to its key slice.
NextKey ==
  \/ New("sha256", Key(MinKeyLen, 0))
  \/ MutateKey
  \/ \E urlString \in AlgoInputs, duration \in Durations :
       Sign(urlString, duration)
  \/ ParseSigned
  \/ Tick
  \/ Verify

SpecKey == Init /\ [][NextKey]_vars

\* Construction alone, over every key length up to MaxTriedKeyLen.
NextNew == \E key \in AllKeys : New("sha256", key)

SpecNew == Init /\ [][NextNew]_vars

\* --------------------------------------------------------- concurrent calls
\* Goroutines that call Sign and Verify on one signer at the same time, after
\* the caller has made a URL object by signing and parsing, or by parsing a
\* URL with a signature that does not match.
NumProcs == 2
Procs == 1..NumProcs

\* The calls a goroutine may make: a Sign, or a Verify of a URL object of
\* its own (a copy of the object the caller made).
SignCall(urlString, duration) ==
  [op |-> "Sign", url |-> urlString, dur |-> duration, u |-> NoURL]
VerifyCall(url) == [op |-> "Verify", url |-> <<>>, dur |-> 0, u |-> url]
ConcCalls(url) ==
  { SignCall(Base, 0), SignCall(WithQuery(qBA), 1),
    SignCall(<<"w", "s", ":", "/", "/", "%", "z", "z">>, 0),
    VerifyCall(url) }

\* A goroutine about to make its call: its locals are the URL object, the
\* string to hash, the query values, the decoded signature and the hash
\* context h.
Idle(call) ==
  [call |-> call, pc |-> "start", u |-> call.u, msg |-> <<>>,
   query |-> EmptyValues, sigBytes |-> <<>>, h |-> 0, ret |-> NoOutput]

\* go func() { ... }() for each goroutine
Spawn ==
  /\ signer.ok
  /\ origin # "none"
  /\ procs = NoProcs
  /\ procs' \in [Procs -> { Idle(call) : call \in ConcCalls(u) }]
  /\ ctxs' = [h \in Procs |-> <<>>]
  /\ UNCHANGED <<keyBytes, signer, newPanicked, clock, input, signed, u, origin,
               tamper, calls, newKey, env, got,
               passVars, httpVars, mem, logVars>>

\* Variant: the factory hands every caller the same hash context.
hasher_Shared(p) == 1

\* s.hasher(): each invocation returns a context of its own (the context of
\* goroutine p is numbered p: a goroutine invokes the factory once).
hasher(p) == p

\* The goroutine has returned.
Done(proc, ret) == [proc EXCEPT !.pc = "done", !.ret = ret]

\* The goroutine goes on to hash the string of its URL object.
ToHasher(proc, url) ==
  [proc EXCEPT !.pc = "hasher", !.u = url, !.msg = String(url)]

\* Sign up to sumURLString: url.Parse, u.Query(), query.Set, query.Encode().
BeginSign(proc, parsed, now) ==
  IF parsed.err
  THEN Done(proc, [err |-> TRUE, out |-> <<>>, panic |-> FALSE])
  ELSE ToHasher(proc, Canonical(parsed.u,
                                WithExpires(Query(parsed.u), now,
                                            proc.call.dur)))

\* Verify up to verifyMAC: u.Query(), extractAndDecodeSignature,
\* u.RawQuery = query.Encode().
BeginVerify(proc, ex) ==
  IF ex.err # ErrNil
  THEN Done(proc, [err |-> ex.err, u |-> proc.u, read |-> FALSE])
  ELSE [ToHasher(proc, Canonical(proc.u, ex.query))
          EXCEPT !.query = ex.query, !.sigBytes = ex.sigBytes]

Begin(p) ==
  /\ p \in DOMAIN procs
  /\ procs[p].pc = "start"
  /\ procs' = [procs EXCEPT ![p] =
                  IF procs[p].call.op = "Sign"
                  THEN BeginSign(procs[p], Parse(procs[p].call.url), clock)
                  ELSE BeginVerify(procs[p],
                                   extractAndDecodeSignature(
                                     Query(procs[p].u)))]
  /\ UNCHANGED <<keyBytes, signer, newPanicked, clock, input, signed, u, origin,
               tamper, calls, newKey, ctxs, env, got,
               passVars, httpVars, mem, logVars>>

\* h := s.hasher(): hmac.New over the key, in the context the factory gives.
NewHash(p) ==
  /\ p \in DOMAIN procs
  /\ procs[p].pc = "hasher"
  /\ IF hasherPanics(Hasher)
     THEN /\ procs' = [procs EXCEPT ![p].pc = "done",
                         ![p].ret = IF procs[p].call.op = "Sign"
                                    THEN [err |-> FALSE, out |-> <<>>,
                                          panic |-> TRUE]
                                    ELSE [err |-> Panic, u |-> procs[p].u]]
          /\ UNCHANGED ctxs
     ELSE /\ procs' = [procs EXCEPT ![p].pc = "write", ![p].h = hasher(p)]
          /\ ctxs' = [ctxs EXCEPT ![hasher(p)] = PadKey(keyBytes)]
  /\ UNCHANGED <<keyBytes, signer, newPanicked, clock, input, signed, u, origin,
               tamper, calls, newKey, env, got,
               passVars, httpVars, mem, logVars>>

\* h.Write(utils.UnsafeBytes(str))
Write(p) ==
  /\ p \in DOMAIN procs
  /\ procs[p].pc = "write"
  /\ ctxs' = [ctxs EXCEPT ![procs[p].h] = @ \o UnsafeBytes(procs[p].msg)]
  /\ procs' = [procs EXCEPT ![p].pc = "sum"]
  /\ UNCHANGED <<keyBytes, signer, newPanicked, clock, input, signed, u, origin,
               tamper, calls, newKey, env, got,
               passVars, httpVars, mem, logVars>>

\* Sign returns the string of its URL object.
ReturnSigned(proc, url) ==
  [Done(proc, [err |-> FALSE, out |-> String(url), panic |-> FALSE])
     EXCEPT !.u = url]

\* h.Sum(nil), and what the caller does with the tag: Sign encodes it,
\* appends it to the query and returns; Verify compares it with the decoded
\* signature and returns ErrInvalidSignature when they differ.
Sum(p) ==
  /\ p \in DOMAIN procs
  /\ procs[p].pc = "sum"
  /\ procs' = [procs EXCEPT ![p] =
                  IF procs[p].call.op = "Sign"
                  THEN ReturnSigned(procs[p],
                                    AppendSignature(procs[p].u,
                                      EncodeToString(ctxs[procs[p].h])))
                  ELSE IF ~Equal(procs[p].sigBytes, ctxs[procs[p].h])
                  THEN Done(procs[p], [err |-> ErrInvalidSignature,
                                       u |-> procs[p].u, read |-> FALSE])
                  ELSE [procs[p] EXCEPT !.pc = "expire"]]
  /\ UNCHANGED <<keyBytes, signer, newPanicked, clock, input, signed, u, origin,
               tamper, calls, newKey, ctxs, env, got,
               passVars, httpVars, mem, logVars>>

\* return s.verifyExpiration(query)
Expire(p) ==
  /\ p \in DOMAIN procs
  /\ procs[p].pc = "expire"
  /\ procs' = [procs EXCEPT ![p].pc = "done",
                  ![p].ret = [err |-> verifyExpiration(clock, procs[p].query),
                              u |-> procs[p].u,
                              read |-> readsNow(procs[p].query)]]
  /\ UNCHANGED <<keyBytes, signer, newPanicked, clock, input, signed, u, origin,
               tamper, calls, newKey, ctxs, env, got,
               passVars, httpVars, mem, logVars>>

NextConc ==
  \/ New("sha256", Key(MinKeyLen, 0))
  \/ \E duration \in (-1)..1 : Sign(Base, duration)
  \/ ParseSigned
  \/ ParseCrafted(WithQuery(qSigB64))
  \/ Spawn
  \/ \E p \in Procs : Begin(p)
  \/ \E p \in Procs : NewHash(p)
  \/ \E p \in Procs : Write(p)
  \/ \E p \in Procs : Sum(p)
  \/ \E p \in Procs : Expire(p)

SpecConc == Init /\ [][NextConc]_vars

\* -------------------------------------------------------------- environment
\* Package utils, GetIntEnv[T] and GetUintEnv[T].  The integer types are
\* told apart by their size in bits; sizes 8 and 16 are run (the code is the
\* same for every size).
Widths == {8, 16}

\* The loop of strconv.ParseUint in base 10 from position i on, n being the
\* value of the digits read so far: a character that is no digit is a syntax
\* error, a value above maxVal is a range error.
RECURSIVE parseUintFrom(_, _, _, _)
parseUintFrom(str, i, n, maxVal) ==
  IF i > Len(str) THEN [err |-> "nil", n |-> n]
  ELSE IF ~IsDigit(str[i]) THEN [err |-> "ErrSyntax", n |-> 0]
  ELSE IF n * 10 + (Ord[str[i]] - 48) > maxVal
  THEN [err |-> "ErrRange", n |-> maxVal]
  ELSE parseUintFrom(str, i + 1, n * 10 + (Ord[str[i]] - 48), maxVal)

\* strconv.ParseUint(s, 10, bitSize): no sign is accepted.
ParseUint(str, bitSize) ==
  IF str = <<>> THEN [err |-> "ErrSyntax", n |-> 0]
  ELSE parseUintFrom(str, 1, 0, 2 ^ bitSize - 1)

\* strconv.ParseInt(s, 10, bitSize): one leading + or - is taken off, the
\* rest goes through ParseUint, and the magnitude is checked against the
\* signed range.
ParseInt(str, bitSize) ==
  IF str = <<>> THEN [err |-> "ErrSyntax", n |-> 0]
  ELSE LET neg == str[1] = "-"
           rest == IF str[1] \in {"+", "-"} THEN Tail(str) ELSE str
           un == ParseUint(rest, bitSize)
           cutoff == 2 ^ (bitSize - 1)
       IN  IF un.err = "ErrSyntax" THEN [err |-> "ErrSyntax", n |-> 0]
           ELSE IF ~neg /\ un.n >= cutoff
           THEN [err |-> "ErrRange", n |-> cutoff - 1]
           ELSE IF neg /\ un.n > cutoff
           THEN [err |-> "ErrRange", n |-> 0 - cutoff]
           ELSE [err |-> "nil", n |-> IF neg THEN 0 - un.n ELSE un.n]

\* The conversions T(parsed): an integer conversion keeps the low bits.
ToInt(x, bits) == ((x + 2 ^ (bits - 1)) % (2 ^ bits)) - 2 ^ (bits - 1)
ToUint(x, bits) == x % (2 ^ bits)

\* Variant: the value is parsed at the widest size, whatever T is.
GetIntEnvOp_Wide(e, bits, defaultValue) ==
  IF ~e.exists THEN [panic |-> FALSE, val |-> defaultValue]
  ELSE IF ParseInt(e.value, 16).err = "nil"
  THEN [panic |-> FALSE, val |-> ToInt(ParseInt(e.value, 16).n, bits)]
  ELSE [panic |-> TRUE, val |-> 0]

\* GetIntEnv[T](e, key, defaultValue), T of the given size
GetIntEnvOp(e, bits, defaultValue) ==
  IF ~e.exists THEN [panic |-> FALSE, val |-> defaultValue]
  ELSE IF ParseInt(e.value, bits).err = "nil"
  THEN [panic |-> FALSE, val |-> ToInt(ParseInt(e.value, bits).n, bits)]
  ELSE [panic |-> TRUE, val |-> 0]

\* GetUintEnv[T](e, key, defaultValue), T of the given size
GetUintEnvOp(e, bits, defaultValue) ==
  IF ~e.exists THEN [panic |-> FALSE, val |-> defaultValue]
  ELSE IF ParseUint(e.value, bits).err = "nil"
  THEN [panic |-> FALSE, val |-> ToUint(ParseUint(e.value, bits).n, bits)]
  ELSE [panic |-> TRUE, val |-> 0]

\* The decimal digits of a natural number (strconv.Itoa in the tests).
RECURSIVE Itoa(_)
Itoa(n) ==
  IF n < 10 THEN <<Digits[n + 1]>>
  ELSE Itoa(n \div 10) \o <<Digits[(n % 10) + 1]>>

\* The values the variable is set to: every number up to MaxEnvNumber and
\* the numbers around the limits of the 16 bit types, written in decimal,
\* bare or with something before or after, and three strings without digits.
MaxEnvNumber == 260
EnvNumbers == 0..MaxEnvNumber \cup {32767, 32768, 32769, 65535, 65536}
EnvPrefixes == { <<>>, <<"+">>, <<"-">>, <<"0">>, <<" ">>, <<"-", "-">> }
EnvSuffixes == { <<>>, <<"x">> }
EnvValues ==
  { pre \o Itoa(n) \o suf :
      pre \in EnvPrefixes, n \in EnvNumbers, suf \in EnvSuffixes }
  \cup { <<>>, <<"+">>, <<"-">> }

\* The default values passed.
EnvDefaults == {0, 7}

InitEnv ==
  /\ keyBytes = <<>>
  /\ signer = NoSigner
  /\ newPanicked = FALSE
  /\ clock = MinClock
  /\ input = NoInput
  /\ signed = NoOutput
  /\ u = NoURL
  /\ origin = "none"
  /\ tamper = "none"
  /\ calls = <<>>
  /\ newKey = <<>>
  /\ procs = NoProcs
  /\ ctxs = NoCtxs
  /\ env \in {NoEnv} \cup { [exists |-> TRUE, value |-> v] : v \in EnvValues }
  /\ got = NoGot
  /\ NoPasswordRun
  /\ NoHTTPRun
  /\ NoMemRun
  /\ NoLogRun

\* utils.GetIntEnv[T](p, key, defaultValue)
GetIntEnv(bits, defaultValue) ==
  /\ ~got.called
  /\ got' = [called |-> TRUE, signed |-> TRUE, bits |-> bits,
             def |-> defaultValue,
             panic |-> GetIntEnvOp(env, bits, defaultValue).panic,
             val |-> GetIntEnvOp(env, bits, defaultValue).val]
  /\ UNCHANGED <<keyBytes, signer, newPanicked, clock, input, signed, u, origin,
               tamper, calls, newKey, procs, ctxs, env,
               passVars, httpVars, mem, logVars>>

\* utils.GetUintEnv[T](p, key, defaultValue)
GetUintEnv(bits, defaultValue) ==
  /\ ~got.called
  /\ got' = [called |-> TRUE, signed |-> FALSE, bits |-> bits,
             def |-> defaultValue,
             panic |-> GetUintEnvOp(env, bits, defaultValue).panic,
             val |-> GetUintEnvOp(env, bits, defaultValue).val]
  /\ UNCHANGED <<keyBytes, signer, newPanicked, clock, input, signed, u, origin,
               tamper, calls, newKey, procs, ctxs, env,
               passVars, httpVars, mem, logVars>>

NextEnv ==
  \/ \E bits \in Widths, defaultValue \in EnvDefaults :
       GetIntEnv(bits, defaultValue)
  \/ \E bits \in Widths, defaultValue \in EnvDefaults :
       GetUintEnv(bits, defaultValue)

SpecEnv == InitEnv /\ [][NextEnv]_vars

\* ---------------------------------------------------------------- durations
\* Package utils, GetDurationEnv.  A time.Duration is an int64 of
\* nanoseconds.  The integers of the checker have 32 bits, so a 64 bit
\* integer is kept as a natural number in limbs of 16 bits, least significant
\* limb first and without zero limbs at the top, together with a sign where
\* it has one.
LimbBase == 65536
Limbs64 == 4

\* x * m + c, for a natural number x in limbs and small naturals m > 0, c.
RECURSIVE MulAdd(_, _, _)
MulAdd(x, m, c) ==
  IF x = <<>>
  THEN IF c = 0 THEN <<>>
       ELSE <<c % LimbBase>> \o MulAdd(<<>>, m, c \div LimbBase)
  ELSE <<(x[1] * m + c) % LimbBase>>
         \o MulAdd(Tail(x), m, (x[1] * m + c) \div LimbBase)

\* x + y for natural numbers in limbs, c the carry.
RECURSIVE AddNat(_, _, _)
AddNat(x, y, c) ==
  IF x = <<>> /\ y = <<>> THEN (IF c = 0 THEN <<>> ELSE <<c>>)
  ELSE LET a == IF x = <<>> THEN 0 ELSE x[1]
           b == IF y = <<>> THEN 0 ELSE y[1]
       IN  <<(a + b + c) % LimbBase>>
             \o AddNat(IF x = <<>> THEN <<>> ELSE Tail(x),
                       IF y = <<>> THEN <<>> ELSE Tail(y),
                       (a + b + c) \div LimbBase)

\* The limbs without the zero limbs at the top.
RECURSIVE Canon(_)
Canon(x) ==
  IF x = <<>> THEN <<>>
  ELSE IF x[Len(x)] = 0 THEN Canon(SubSeq(x, 1, Len(x) - 1))
  ELSE x

\* x < y for natural numbers in limbs.
RECURSIVE NatLess(_, _)
NatLess(x, y) ==
  IF Len(x) # Len(y) THEN Len(x) < Len(y)
  ELSE IF x = <<>> THEN FALSE
  ELSE IF x[Len(x)] # y[Len(y)] THEN x[Len(x)] < y[Len(y)]
  ELSE NatLess(SubSeq(x, 1, Len(x) - 1), SubSeq(y, 1, Len(y) - 1))

\* 1<<63 and 1<<63 - 1
Two63 == <<0, 0, 0, 32768>>
MaxInt64 == <<65535, 65535, 65535, 32767>>

\* The natural number that a string of digits denotes.
RECURSIVE NatOfDigits(_, _)
NatOfDigits(str, n) ==
  IF str = <<>> THEN n
  ELSE NatOfDigits(Tail(str), MulAdd(n, 10, Ord[str[1]] - 48))

\* The low 64 bits of a natural number, as four limbs.
Low64(x) == [k \in 1..Limbs64 |-> IF k <= Len(x) THEN x[k] ELSE 0]

\* The two's complement of four limbs: 2^64 - x, modulo 2^64.
Neg64(x) == Low64(MulAdd([k \in 1..Limbs64 |-> LimbBase - 1 - x[k]], 1, 1))

\* An int64 value: its sign and its magnitude.
Int64(neg, mag) == [neg |-> neg /\ mag # <<>>, mag |-> mag]

\* The four limbs of an int64 value, and the int64 value of four limbs.
Bits64(v) == IF v.neg THEN Neg64(Low64(v.mag)) ELSE Low64(v.mag)
OfBits64(x) ==
  IF x[Limbs64] >= LimbBase \div 2 THEN Int64(TRUE, Canon(Neg64(x)))
  ELSE Int64(FALSE, Canon(x))

\* strconv.ParseInt(s, 10, 64): one leading sign is taken off, the rest has
\* to be digits, and the magnitude is checked against the range of int64.
ParseInt64(str) ==
  IF str = <<>> THEN [err |-> "ErrSyntax", n |-> Int64(FALSE, <<>>)]
  ELSE LET neg == str[1] = "-"
           rest == IF str[1] \in {"+", "-"} THEN Tail(str) ELSE str
       IN  IF rest = <<>> \/ \E i \in 1..Len(rest) : ~IsDigit(rest[i])
           THEN [err |-> "ErrSyntax", n |-> Int64(FALSE, <<>>)]
           ELSE IF ~neg /\ ~NatLess(NatOfDigits(rest, <<>>), Two63)
           THEN [err |-> "ErrRange", n |-> Int64(FALSE, MaxInt64)]
           ELSE IF neg /\ NatLess(Two63, NatOfDigits(rest, <<>>))
           THEN [err |-> "ErrRange", n |-> Int64(TRUE, Two63)]
           ELSE [err |-> "nil", n |-> Int64(neg, NatOfDigits(rest, <<>>))]

\* The units of time.ParseDuration in nanoseconds, each as the factors
\* whose product it is.
UnitFactors ==
  ( <<"n", "s">> :> <<>> ) @@
  ( <<"u", "s">> :> <<1000>> ) @@
  ( <<"m", "s">> :> <<1000, 1000>> ) @@
  ( <<"s">> :> <<1000, 1000, 1000>> ) @@
  ( <<"m">> :> <<1000, 1000, 1000, 60>> ) @@
  ( <<"h">> :> <<1000, 1000, 1000, 3600>> )

\* x times the product of the factors.
RECURSIVE Scale(_, _)
Scale(x, factors) ==
  IF factors = <<>> THEN x
  ELSE Scale(MulAdd(x, factors[1], 0), Tail(factors))

\* time.Second as the factors of its number of nanoseconds.
Second == UnitFactors[<<"s">>]

\* The number of leading characters of str that are digits, and the number
\* of leading characters that are neither a digit nor a point.
RECURSIVE DigitsLen(_)
DigitsLen(str) ==
  IF str = <<>> \/ ~IsDigit(str[1]) THEN 0 ELSE 1 + DigitsLen(Tail(str))
RECURSIVE UnitLen(_)
UnitLen(str) ==
  IF str = <<>> \/ IsDigit(str[1]) \/ str[1] = "." THEN 0
  ELSE 1 + UnitLen(Tail(str))

\* The loop of time.ParseDuration over the rest of the string, d being the
\* nanoseconds summed so far, for strings without a decimal point: a number,
\* then a unit of unitMap; a number or a sum above 1<<63 is an error.
RECURSIVE parseDurationFrom(_, _)
parseDurationFrom(str, d) ==
  IF str = <<>> THEN [err |-> FALSE, d |-> d]
  ELSE LET nd == DigitsLen(str)
           nu == UnitLen(SubSeq(str, nd + 1, Len(str)))
           v == NatOfDigits(SubSeq(str, 1, nd), <<>>)
           unit == SubSeq(str, nd + 1, nd + nu)
       IN  IF nd = 0 \/ NatLess(Two63, v) \/ nu = 0
              \/ unit \notin DOMAIN UnitFactors
           THEN [err |-> TRUE, d |-> <<>>]
           ELSE IF NatLess(Two63, Scale(v, UnitFactors[unit]))
                   \/ NatLess(Two63, AddNat(d, Scale(v, UnitFactors[unit]), 0))
           THEN [err |-> TRUE, d |-> <<>>]
           ELSE parseDurationFrom(
                  SubSeq(str, nd + nu + 1, Len(str)),
                  AddNat(d, Scale(v, UnitFactors[unit]), 0))

\* time.ParseDuration(s): a sign, then "0" alone or numbers with units.
ParseDuration(str) ==
  LET neg == str # <<>> /\ str[1] = "-"
      rest == IF str # <<>> /\ str[1] \in {"+", "-"} THEN Tail(str) ELSE str
  IN  IF rest = <<"0">> THEN [err |-> FALSE, d |-> Int64(FALSE, <<>>)]
      ELSE IF rest = <<>> \/ parseDurationFrom(rest, <<>>).err
      THEN [err |-> TRUE, d |-> Int64(FALSE, <<>>)]
      ELSE IF ~neg /\ NatLess(MaxInt64, parseDurationFrom(rest, <<>>).d)
      THEN [err |-> TRUE, d |-> Int64(FALSE, <<>>)]
      ELSE [err |-> FALSE,
            d |-> OfBits64(Bits64(Int64(neg, parseDurationFrom(rest, <<>>).d)))]

\* time.Duration(seconds) * time.Second: the product of two int64 values
\* keeps the low 64 bits.
SecondsToDuration(seconds) ==
  OfBits64(Low64(Scale(Bits64(seconds), Second)))

\* GetDurationEnv(e, key, defaultValue)
GetDurationEnvOp(e, defaultValue) ==
  IF ~e.exists THEN [panic |-> FALSE, val |-> defaultValue]
  ELSE IF ~ParseDuration(e.value).err
  THEN [panic |-> FALSE, val |-> ParseDuration(e.value).d]
  ELSE IF ParseInt64(e.value).err = "nil"
  THEN [panic |-> FALSE, val |-> SecondsToDuration(ParseInt64(e.value).n)]
  ELSE [panic |-> TRUE, val |-> Int64(FALSE, <<>>)]

\* The values the variable is set to: every number up to MaxDurNumber and
\* numbers around the limits of int64 nanoseconds and of int64, written in
\* decimal, bare or with a sign before and a unit or a letter after.
MaxDurNumber == 12
BigDurNumbers ==
  { <<"9", "2", "2", "3", "3", "7", "2", "0", "3", "6">>,
    <<"9", "2", "2", "3", "3", "7", "2", "0", "3", "7">>,
    <<"1", "8", "4", "4", "6", "7", "4", "4", "0", "7", "3">>,
    <<"1", "8", "4", "4", "6", "7", "4", "4", "0", "7", "4">>,
    <<"9", "2", "2", "3", "3", "7", "2", "0", "3", "6", "8", "5", "4", "7", "7", "5", "8", "0", "7">>,
    <<"9", "2", "2", "3", "3", "7", "2", "0", "3", "6", "8", "5", "4", "7", "7", "5", "8", "0", "8">>,
    <<"9", "9", "9", "9", "9", "9", "9", "9", "9", "9", "9", "9", "9", "9", "9", "9", "9", "9", "9", "9">> }
DurNumbers == { Itoa(n) : n \in 0..MaxDurNumber } \cup BigDurNumbers
    \cup { <<"0", "0">>, <<"7", "2", "0", "0">>, <<"2", "5", "0">> }
DurPrefixes == { <<>>, <<"+">>, <<"-">> }
DurSuffixes ==
  { <<>>, <<"s">>, <<"m">>, <<"h">>, <<"m", "s">>, <<"x">>, <<"s", "1">>,
    <<"m", "3", "s">> }
DurValues ==
  { pre \o n \o suf : pre \in DurPrefixes, n \in DurNumbers,
                      suf \in DurSuffixes }
  \cup { <<>>, <<"-">>, <<"s">> }

\* The default values passed: time.Second and time.Minute.
DurDefaults ==
  { Int64(FALSE, Scale(<<1>>, Second)), Int64(FALSE, Scale(<<60>>, Second)) }

InitDur ==
  /\ keyBytes = <<>>
  /\ signer = NoSigner
  /\ newPanicked = FALSE
  /\ clock = MinClock
  /\ input = NoInput
  /\ signed = NoOutput
  /\ u = NoURL
  /\ origin = "none"
  /\ tamper = "none"
  /\ calls = <<>>
  /\ newKey = <<>>
  /\ procs = NoProcs
  /\ ctxs = NoCtxs
  /\ env \in {NoEnv} \cup { [exists |-> TRUE, value |-> v] : v \in DurValues }
  /\ got = NoGot
  /\ NoPasswordRun
  /\ NoHTTPRun
  /\ NoMemRun
  /\ NoLogRun

\* utils.GetDurationEnv(p, key, defaultValue)
GetDurationEnv(defaultValue) ==
  /\ ~got.called
  /\ got' = [called |-> TRUE, signed |-> TRUE, bits |-> 64,
             def |-> defaultValue,
             panic |-> GetDurationEnvOp(env, defaultValue).panic,
             val |-> GetDurationEnvOp(env, defaultValue).val]
  /\ UNCHANGED <<signerVars, env, passVars, httpVars, mem, logVars>>

NextDur == \E defaultValue \in DurDefaults : GetDurationEnv(defaultValue)

SpecDur == InitDur /\ [][NextDur]_vars

\* ----------------------------------------------------------------- passwords
\* Package utils, GenerateRandomPassword.
lowercase ==
  << "a", "b", "c", "d", "e", "f", "g", "h", "i", "j", "k", "l", "m", "n",
     "o", "p", "q", "r", "s", "t", "u", "v", "w", "x", "y", "z" >>
uppercase ==
  << "A", "B", "C", "D", "E", "F", "G", "H", "I", "J", "K", "L", "M", "N",
     "O", "P", "Q", "R", "S", "T", "U", "V", "W", "X", "Y", "Z" >>
numbers == << "0", "1", "2", "3", "4", "5", "6", "7", "8", "9" >>
special ==
  << "!", "@", "#", "$", "%", "^", "&", "*", "(", ")", "-", "_", "=", "+",
     "[", "]", "{", "}", "|", ";", ":", ",", ".", "<", ">", "?" >>
allChars == lowercase \o uppercase \o numbers \o special
charSets == <<lowercase, uppercase, numbers, special>>

\* crypto/rand.Reader: what it delivers is fixed by a seed and a stride, and
\* it may fail at one of its reads (failAt, 0 for never).  rand.Int(Reader,
\* max) takes the next value of the reader into the range 0..max-1.
MaxSeed == 7
Strides == {0, 1, 3, 29, 53, 87}
FailAts == {0, 1, 6, 14}
Readers ==
  [seed : 0..MaxSeed, stride : Strides, failAt : FailAts, reads : {0}]
RandFails(rd) == rd.failAt = rd.reads + 1
RandInt(rd, max) == (rd.seed + rd.reads * rd.stride) % max
Advance(rd) == [rd EXCEPT !.reads = @ + 1]

\* The length arguments passed.
MaxPasswordLength == 13
PasswordLengths == {0 - 5, 0, 1} \cup 7..MaxPasswordLength

InitPassword ==
  /\ keyBytes = <<>>
  /\ signer = NoSigner
  /\ newPanicked = FALSE
  /\ clock = MinClock
  /\ input = NoInput
  /\ signed = NoOutput
  /\ u = NoURL
  /\ origin = "none"
  /\ tamper = "none"
  /\ calls = <<>>
  /\ newKey = <<>>
  /\ procs = NoProcs
  /\ ctxs = NoCtxs
  /\ env = NoEnv
  /\ got = NoGot
  /\ reader \in Readers
  /\ pw = NoPw
  /\ NoHTTPRun
  /\ NoMemRun
  /\ NoLogRun

\* return "", err
Failed(p) == [p EXCEPT !.pc = "done", !.err = TRUE, !.password = <<>>]

\* GenerateRandomPassword(length) up to the first loop: a length below 8
\* becomes 12, the builder is empty.
GenerateRandomPassword(length) ==
  /\ pw.pc = "idle"
  /\ pw' = [pw EXCEPT !.pc = "sets", !.arg = length,
                      !.length = IF length < 8 THEN 12 ELSE length,
                      !.password = <<>>, !.i = 1]
  /\ UNCHANGED <<signerVars, envVars, reader, httpVars, mem, logVars>>

\* One round of the loop over charSets: one character of the set.
PickFromSet ==
  /\ pw.pc = "sets"
  /\ reader' = Advance(reader)
  /\ pw' = IF RandFails(reader) THEN Failed(pw)
           ELSE [pw EXCEPT
                   !.password =
                     Append(@, charSets[pw.i][
                                 RandInt(reader, Len(charSets[pw.i])) + 1]),
                   !.i = IF pw.i = Len(charSets) THEN 0 ELSE pw.i + 1,
                   !.pc = IF pw.i = Len(charSets) THEN "fill" ELSE "sets"]
  /\ UNCHANGED <<signerVars, envVars, httpVars, mem, logVars>>

\* One round of the loop that fills the builder from allChars; when the
\* builder is full the shuffle starts at the last byte.
Fill ==
  /\ pw.pc = "fill"
  /\ Len(pw.password) < pw.length
  /\ reader' = Advance(reader)
  /\ pw' = IF RandFails(reader) THEN Failed(pw)
           ELSE [pw EXCEPT
                   !.password =
                     Append(@, allChars[RandInt(reader, Len(allChars)) + 1]),
                   !.i = IF Len(pw.password) + 1 = pw.length
                         THEN pw.length - 1 ELSE 0,
                   !.pc = IF Len(pw.password) + 1 = pw.length
                          THEN "shuffle" ELSE "fill"]
  /\ UNCHANGED <<signerVars, envVars, httpVars, mem, logVars>>

\* Variant: the byte at j is copied to i, the byte at i is lost.
Swap_Copy(bytes, i, j) == [bytes EXCEPT ![i + 1] = bytes[j + 1]]

\* passwordBytes[i], passwordBytes[j] = passwordBytes[j], passwordBytes[i]
Swap(bytes, i, j) ==
  [bytes EXCEPT ![i + 1] = bytes[j + 1], ![j + 1] = bytes[i + 1]]

\* One round of the shuffle, i running down to 1; after the last round the
\* bytes are returned.
Shuffle ==
  /\ pw.pc = "shuffle"
  /\ pw.i > 0
  /\ reader' = Advance(reader)
  /\ pw' = IF RandFails(reader) THEN Failed(pw)
           ELSE [pw EXCEPT
                   !.password = Swap(@, pw.i, RandInt(reader, pw.i + 1)),
                   !.i = pw.i - 1,
                   !.pc = IF pw.i = 1 THEN "done" ELSE "shuffle"]
  /\ UNCHANGED <<signerVars, envVars, httpVars, mem, logVars>>

NextPassword ==
  \/ \E length \in PasswordLengths : GenerateRandomPassword(length)
  \/ PickFromSet
  \/ Fill
  \/ Shuffle

SpecPassword == InitPassword /\ [][NextPassword]_vars

\* ---------------------------------------------------------------------- HTTP
\* Package httputils, Response and its encoders, writing to the
\* http.ResponseWriter the tests pass, a httptest.ResponseRecorder.
StatusOK == 200
StatusCreated == 201
StatusInternalServerError == 500
ErrorStatuses == {400, 404, 500}
Statuses == {StatusOK, StatusCreated} \cup ErrorStatuses

\* The values passed as data: none, a string, a struct, and a channel, which
\* json.Marshal refuses.
NoData == [kind |-> "none", text |-> ""]
Chan == [kind |-> "chan", text |-> ""]
Datas == { NoData, [kind |-> "string", text |-> "chained response"], Chan }
ErrorMessage(err) == [kind |-> "struct", text |-> err]
Marshalable(data) == data.kind # "chan"

\* What is written to the body: bytes as given, or the JSON of a value.
Raw(text) == [enc |-> "raw", text |-> text]
Marshal(data) == [enc |-> "json", text |-> data.text]

\* The headers the package sets.
NoHeader == [ContentType |-> "", SetCookie |-> <<>>]
Sniffed == "text/plain; charset=utf-8"

\* httptest.NewRecorder(); calls is the history of the calls made on it.
NewRecorder ==
  [Code |-> StatusOK, wroteHeader |-> FALSE, HeaderMap |-> NoHeader,
   snapHeader |-> NoHeader, Body |-> <<>>, calls |-> <<>>]

\* w.Header().Set("Content-Type", value)
SetContentType(w, value) == [w EXCEPT !.HeaderMap.ContentType = value]

\* Variant: every WriteHeader call sets the status.
WriteHeader_Last(w, code) ==
  [w EXCEPT !.Code = code, !.wroteHeader = TRUE, !.snapHeader = w.HeaderMap]

\* ResponseRecorder.WriteHeader: only the first call has an effect; it fixes
\* the status and the headers sent.
WriteHeader(w, code) ==
  IF w.wroteHeader THEN w
  ELSE [w EXCEPT !.Code = code, !.wroteHeader = TRUE,
                 !.snapHeader = w.HeaderMap]

\* ResponseRecorder.Write: a first write sends the header with status 200,
\* after sniffing a content type when none is set.
ImplicitHeader(w) ==
  IF w.wroteHeader THEN w
  ELSE IF w.HeaderMap.ContentType = ""
  THEN WriteHeader(SetContentType(w, Sniffed), StatusOK)
  ELSE WriteHeader(w, StatusOK)
WriterWrite(w, chunk) == [ImplicitHeader(w) EXCEPT !.Body = Append(@, chunk)]

\* JSON.Encode(w, status, data...)
JSONEncode(w, status, data) ==
  IF data = NoData
  THEN WriterWrite(WriteHeader(SetContentType(w, "application/json"), status),
                   Raw("{}"))
  ELSE IF ~Marshalable(data)
  THEN WriterWrite(
         WriteHeader(
           WriteHeader(SetContentType(w, "application/json"), status),
           StatusInternalServerError),
         Raw("{}"))
  ELSE WriterWrite(WriteHeader(SetContentType(w, "application/json"), status),
                   Marshal(data))

\* Text.Encode(w, status, data...): data[0].(string) panics on a value that
\* is no string, after the header was written.
TextPanics(data) == data # NoData /\ data.kind # "string"
TextEncode(w, status, data) ==
  IF data = NoData \/ TextPanics(data)
  THEN WriteHeader(SetContentType(w, "text/plain"), status)
  ELSE WriterWrite(WriteHeader(SetContentType(w, "text/plain"), status),
                   Raw(data.text))

\* encoder.Encode(w, status, data...)
EncodeOp(encoder, w, status, data) ==
  IF encoder = "JSON" THEN JSONEncode(w, status, data)
  ELSE TextEncode(w, status, data)
EncodePanics(encoder, data) == encoder = "Text" /\ TextPanics(data)

\* The cookies passed to SetCookie; the third has no name, and
\* http.SetCookie drops a cookie whose String() is empty.
NoCookie == [Name |-> "", Value |-> ""]
Cookies ==
  { [Name |-> "chain", Value |-> "test"],
    [Name |-> "test-cookie", Value |-> "test-value"],
    [Name |-> "", Value |-> "x"] }

\* A slice of cookies: its backing array (0 for nil), length and capacity.
NilSlice == [arr |-> 0, len |-> 0, cap |-> 0]
Elements(slice) ==
  IF slice.len = 0 THEN <<>> ELSE SubSeq(arrays[slice.arr], 1, slice.len)

\* The capacity append gives a slice that is full (runtime.growslice, for
\* slices of pointers of fewer than 256 elements: doubled).
GrowCap(oldCap, newLen) ==
  IF newLen > 2 * oldCap THEN newLen ELSE 2 * oldCap
Grown(slice, cookie) ==
  [k \in 1..GrowCap(slice.cap, slice.len + 1) |->
     IF k <= slice.len THEN arrays[slice.arr][k]
     ELSE IF k = slice.len + 1 THEN cookie ELSE NoCookie]

\* append(slice, cookie): in place when the capacity allows it, in a new
\* array otherwise.  The slice returned, and the arrays afterwards.
AppendSlice(slice) ==
  IF slice.len < slice.cap THEN [slice EXCEPT !.len = @ + 1]
  ELSE [arr |-> Len(arrays) + 1, len |-> slice.len + 1,
        cap |-> GrowCap(slice.cap, slice.len + 1)]
AppendArrays(slice, cookie) ==
  IF slice.len < slice.cap
  THEN [arrays EXCEPT ![slice.arr][slice.len + 1] = cookie]
  ELSE Append(arrays, Grown(slice, cookie))

\* NewResponse(w); want is the history of the cookies the value was given.
NewResponseOp == [encoder |-> "JSON", cookies |-> NilSlice, want |-> <<>>]

\* The Response values a handler holds at most, the length of a chain of
\* calls, and the calls that write to the ResponseWriter.
MaxResponses == 6
MaxChain == 2
MaxWriterCalls == 2

InitHTTP ==
  /\ keyBytes = <<>>
  /\ signer = NoSigner
  /\ newPanicked = FALSE
  /\ clock = MinClock
  /\ input = NoInput
  /\ signed = NoOutput
  /\ u = NoURL
  /\ origin = "none"
  /\ tamper = "none"
  /\ calls = <<>>
  /\ newKey = <<>>
  /\ procs = NoProcs
  /\ ctxs = NoCtxs
  /\ env = NoEnv
  /\ got = NoGot
  /\ NoPasswordRun
  /\ rr = NewRecorder
  /\ resps = <<>>
  /\ arrays = <<>>
  /\ NoMemRun
  /\ NoLogRun

\* response := NewResponse(rr)
NewResponse ==
  /\ resps = <<>>
  /\ resps' = <<NewResponseOp>>
  /\ UNCHANGED <<signerVars, envVars, passVars, rr, arrays, mem, logVars>>

\* r.JSON(), r.Text(): a copy of the value with the encoder set
SetEncoder(r, encoder) ==
  /\ r \in DOMAIN resps
  /\ Len(resps) < MaxResponses
  /\ resps' = Append(resps, [resps[r] EXCEPT !.encoder = encoder])
  /\ UNCHANGED <<signerVars, envVars, passVars, rr, arrays, mem, logVars>>

\* r.SetCookie(cookie): a copy of the value with the cookie appended
SetCookie(r, cookie) ==
  /\ r \in DOMAIN resps
  /\ Len(resps) < MaxResponses
  /\ resps' = Append(resps,
                [resps[r] EXCEPT
                   !.cookies = AppendSlice(resps[r].cookies),
                   !.want = Elements(resps[r].cookies) \o <<cookie>>])
  /\ arrays' = AppendArrays(resps[r].cookies, cookie)
  /\ UNCHANGED <<signerVars, envVars, passVars, rr, mem, logVars>>

\* r.ContentType(contentType)
ContentType(r, contentType) ==
  /\ r \in DOMAIN resps
  /\ rr.calls = <<>>
  /\ rr.HeaderMap.ContentType = ""
  /\ rr' = SetContentType(rr, contentType)
  /\ UNCHANGED <<signerVars, envVars, passVars, resps, arrays, mem, logVars>>

\* The entry a call leaves in the history of the recorder.
Called(w, op, r, status, data) ==
  [w EXCEPT !.calls =
     Append(@, [op |-> op, encoder |-> r.encoder,
                cookies |-> Elements(r.cookies), status |-> status,
                data |-> data,
                panic |-> op # "Write" /\ EncodePanics(r.encoder, data)])]

\* http.SetCookie(w, cookie) for each cookie: a Set-Cookie header is added
\* for every cookie whose String() is not empty.
RECURSIVE SetCookies(_, _)
SetCookies(w, cookies) ==
  IF cookies = <<>> THEN w
  ELSE SetCookies(
         IF cookies[1].Name = "" THEN w
         ELSE [w EXCEPT !.HeaderMap.SetCookie = Append(@, cookies[1])],
         Tail(cookies))

\* Variant: the cookies of the value are set before the data is encoded.
OKOp_Cookies(w, r, data) ==
  EncodeOp(r.encoder, SetCookies(w, Elements(r.cookies)), StatusOK, data)

\* r.OK(data...), r.Created(data...), r.Error(status, err)
OKOp(w, r, data) == EncodeOp(r.encoder, w, StatusOK, data)
CreatedOp(w, r, data) == EncodeOp(r.encoder, w, StatusCreated, data)
ErrorOp(w, r, status, err) ==
  EncodeOp(r.encoder, w, status, ErrorMessage(err))

\* r.Write(data)
WriteOp(w, r, data) ==
  WriterWrite(SetCookies(w, Elements(r.cookies)), Raw(data.text))

CanWrite(r) == r \in DOMAIN resps /\ Len(rr.calls) < MaxWriterCalls

OK(r, data) ==
  /\ CanWrite(r)
  /\ rr' = Called(OKOp(rr, resps[r], data), "OK", resps[r], StatusOK, data)
  /\ UNCHANGED <<signerVars, envVars, passVars, resps, arrays, mem, logVars>>

Created(r, data) ==
  /\ CanWrite(r)
  /\ rr' = Called(CreatedOp(rr, resps[r], data), "Created", resps[r],
                  StatusCreated, data)
  /\ UNCHANGED <<signerVars, envVars, passVars, resps, arrays, mem, logVars>>

Error(r, status, err) ==
  /\ CanWrite(r)
  /\ rr' = Called(ErrorOp(rr, resps[r], status, err), "Error", resps[r],
                  status, ErrorMessage(err))
  /\ UNCHANGED <<signerVars, envVars, passVars, resps, arrays, mem, logVars>>

\* n, err := r.Write(data)
ResponseWrite(r, data) ==
  /\ CanWrite(r)
  /\ rr' = Called(WriteOp(rr, resps[r], data), "Write", resps[r], 0, data)
  /\ UNCHANGED <<signerVars, envVars, passVars, resps, arrays, mem, logVars>>

\* encoder.Encode(rr, status, data...), as the tests of the encoders call it
EncoderEncode(encoder, status, data) ==
  /\ Len(rr.calls) < MaxWriterCalls
  /\ rr' = Called(EncodeOp(encoder, rr, status, data), "Encode",
                  [encoder |-> encoder, cookies |-> NilSlice], status, data)
  /\ UNCHANGED <<signerVars, envVars, passVars, resps, arrays, mem, logVars>>

\* A handler that builds its Response by a chain of calls and then writes;
\* the tests of the encoders call the encoder itself.
NextHTTP ==
  \/ NewResponse
  \/ /\ Len(resps) <= MaxChain
     /\ rr.calls = <<>>
     /\ \E encoder \in {"JSON", "Text"} : SetEncoder(Len(resps), encoder)
  \/ /\ Len(resps) <= MaxChain
     /\ rr.calls = <<>>
     /\ \E cookie \in Cookies : SetCookie(Len(resps), cookie)
  \/ ContentType(Len(resps), "custom/type")
  \/ \E data \in Datas : OK(Len(resps), data)
  \/ \E data \in Datas : Created(Len(resps), data)
  \/ \E status \in ErrorStatuses : Error(Len(resps), status, "bad request")
  \/ ResponseWrite(Len(resps), [kind |-> "string", text |-> "test content"])
  \/ \E status \in Statuses, data \in Datas :
       EncoderEncode("JSON", status, data)

SpecHTTP == InitHTTP /\ [][NextHTTP]_vars

\* A handler that derives Response values from any value it holds.
NextCookies ==
  \/ NewResponse
  \/ \E r \in DOMAIN resps, cookie \in Cookies : SetCookie(r, cookie)

SpecCookies == InitHTTP /\ [][NextCookies]_vars

\* --------------------------------------------------------------- memory size
\* Package utils, MemorySize.String and FormatMemorySize.  A MemorySize is a
\* uint64, kept as a natural number in limbs; a unit is kept as the factors
\* 1024 whose product it is.
Kilo == 1024
ByteUnit == <<>>
KiB == <<Kilo>>
MiB == <<Kilo, Kilo>>
GiB == <<Kilo, Kilo, Kilo>>
TiB == <<Kilo, Kilo, Kilo, Kilo>>
UnitSize(unit) == Scale(<<1>>, unit)

\* x \div d and x % d for a natural number x in limbs and a small d > 0:
\* the long division from the top limb down, RemFrom(x, d, k) being what is
\* left over from the limbs k and above.
RECURSIVE RemFrom(_, _, _)
RemFrom(x, d, k) ==
  IF k > Len(x) THEN 0 ELSE (RemFrom(x, d, k + 1) * LimbBase + x[k]) % d
DivSmall(x, d) ==
  Canon([k \in 1..Len(x) |->
           (RemFrom(x, d, k + 1) * LimbBase + x[k]) \div d])

\* x \div unit
RECURSIVE DivUnit(_, _)
DivUnit(x, unit) ==
  IF unit = <<>> THEN x ELSE DivUnit(DivSmall(x, unit[1]), Tail(unit))

\* The number of bits of a natural number.
RECURSIVE BitLenSmall(_)
BitLenSmall(n) == IF n = 0 THEN 0 ELSE 1 + BitLenSmall(n \div 2)
BitLen(x) ==
  IF x = <<>> THEN 0 ELSE 16 * (Len(x) - 1) + BitLenSmall(x[Len(x)])

\* Rounding to the nearest, half to even: q is the quotient rounded down,
\* twice is 2 * x and odd is (2 * q + 1) * divisor, so that twice > odd when
\* the part cut off is above one half, and twice = odd when it is one half.
RoundHalfEven(q, twice, odd) ==
  IF NatLess(odd, twice) \/ (twice = odd /\ q # <<>> /\ q[1] % 2 = 1)
  THEN AddNat(q, <<1>>, 0) ELSE q

\* float64(m): a float64 has 53 bits; the bits of m below its 53 top bits are
\* rounded off.
Float64Bits == 53
DropBits(m, drop) ==
  MulAdd(RoundHalfEven(DivSmall(m, 2 ^ drop), MulAdd(m, 2, 0),
                       MulAdd(MulAdd(DivSmall(m, 2 ^ drop), 2, 1),
                              2 ^ drop, 0)),
         2 ^ drop, 0)
Float64(m) ==
  IF BitLen(m) <= Float64Bits THEN m ELSE DropBits(m, BitLen(m) - Float64Bits)

\* strconv.AppendFloat(bytes, f / unit, 'f', 0, 64) for a unit that is a
\* power of two: the division is exact, the digits are those of the
\* quotient rounded to the nearest integer, half to even.
FormatFloat0(f, unit) ==
  RoundHalfEven(DivUnit(f, unit), MulAdd(f, 2, 0),
                Scale(MulAdd(DivUnit(f, unit), 2, 1), unit))

\* The number of a small natural number kept in limbs.
Small(x) ==
  IF x = <<>> THEN 0
  ELSE IF Len(x) = 1 THEN x[1] ELSE x[1] + LimbBase * x[2]

\* FormatMemorySize(m, unit, suffix)
FormatMemorySize(m, unit, suffix) ==
  Itoa(Small(FormatFloat0(Float64(m), unit))) \o suffix

\* MemorySize.String
MemorySizeString(m) ==
  IF ~NatLess(m, UnitSize(TiB))
  THEN FormatMemorySize(m, TiB, <<"T", "i", "B">>)
  ELSE IF ~NatLess(m, UnitSize(GiB))
  THEN FormatMemorySize(m, GiB, <<"G", "i", "B">>)
  ELSE IF ~NatLess(m, UnitSize(MiB))
  THEN FormatMemorySize(m, MiB, <<"M", "i", "B">>)
  ELSE IF ~NatLess(m, UnitSize(KiB))
  THEN FormatMemorySize(m, KiB, <<"K", "i", "B">>)
  ELSE FormatMemorySize(m, ByteUnit, <<"B">>)

\* The sizes printed: t TiB + g GiB + m MiB + k KiB + b bytes, for numbers
\* of TiB up to the largest a uint64 holds and parts at and around one half
\* of the next unit.
Bytes(t, g, m, k, b) ==
  MulAdd(MulAdd(MulAdd(MulAdd(Canon(<<t % LimbBase, t \div LimbBase>>),
                              Kilo, g), Kilo, m), Kilo, k), Kilo, b)
MaxTiBs == 16777215
TiBs == {0, 1, 2, 3, 8192, 8193, MaxTiBs}
Parts == {0, 511, 512, 1023}
Sizes ==
  { Bytes(t, g, m, k, b) :
      t \in TiBs, g \in Parts, m \in Parts, k \in Parts \cup {1, 2, 3},
      b \in Parts \cup {1, 513} }

InitMem ==
  /\ keyBytes = <<>>
  /\ signer = NoSigner
  /\ newPanicked = FALSE
  /\ clock = MinClock
  /\ input = NoInput
  /\ signed = NoOutput
  /\ u = NoURL
  /\ origin = "none"
  /\ tamper = "none"
  /\ calls = <<>>
  /\ newKey = <<>>
  /\ procs = NoProcs
  /\ ctxs = NoCtxs
  /\ env = NoEnv
  /\ got = NoGot
  /\ NoPasswordRun
  /\ NoHTTPRun
  /\ mem \in { [size |-> size, called |-> FALSE, str |-> <<>>] :
               size \in Sizes }
  /\ NoLogRun

\* s := m.String()
MemoryString ==
  /\ ~mem.called
  /\ mem' = [mem EXCEPT !.called = TRUE, !.str = MemorySizeString(mem.size)]
  /\ UNCHANGED <<signerVars, envVars, passVars, httpVars, logVars>>

NextMem == MemoryString

SpecMem == InitMem /\ [][NextMem]_vars

\* ---------------------------------------------------- added and removed pairs
\* key=value pairs a caller, or anyone who handles the URL, may add to the
\* query of a signed URL: a new key, a key the URL has, a second
\* `signature`, a second `expires`, a pair with a semicolon and a pair with
\* a broken escape.
AddedPairs ==
  { <<"x", "=", "1">>, qA1, qSigB64, qExpPast, <<"x", ";", "y">>,
    <<"%", "z", "z", "=", "1">>, <<"=">> }

\* The pairs with one more pair after the first pos of them.
InsertAt(pairs, pos, pair) ==
  SubSeq(pairs, 1, pos) \o <<pair>> \o SubSeq(pairs, pos + 1, Len(pairs))

\* The pairs without the one at pos.
RemoveAt(pairs, pos) ==
  SubSeq(pairs, 1, pos - 1) \o SubSeq(pairs, pos + 1, Len(pairs))

\* u.RawQuery gets one more pair, at any position.
AddParam(pair) ==
  /\ CanTamper
  /\ \E pos \in 0..Len(SplitPairs(u.RawQuery)) :
       u' = [u EXCEPT !.RawQuery =
               Join(InsertAt(SplitPairs(u.RawQuery), pos, pair), <<"&">>)]
  /\ tamper' = "add"
  /\ UNCHANGED <<keyBytes, signer, newPanicked, clock, input, signed, origin,
               calls, newKey, procs, ctxs, envVars, passVars, httpVars, mem,
               logVars>>

\* u.RawQuery loses one pair other than the signature.
RemoveParam ==
  /\ CanTamper
  /\ \E pos \in 1..Len(SplitPairs(u.RawQuery)) :
       /\ CutBefore(SplitPairs(u.RawQuery)[pos], "=") # Signature
       /\ u' = [u EXCEPT !.RawQuery =
                  Join(RemoveAt(SplitPairs(u.RawQuery), pos), <<"&">>)]
  /\ tamper' = "remove"
  /\ UNCHANGED <<keyBytes, signer, newPanicked, clock, input, signed, origin,
               calls, newKey, procs, ctxs, envVars, passVars, httpVars, mem,
               logVars>>

\* Signed URLs whose parameter set is changed before they are verified.
NextParams ==
  \/ New("sha256", Key(MinKeyLen, 0))
  \/ \E urlString \in SignInputs, duration \in Durations :
       Sign(urlString, duration)
  \/ ParseSigned
  \/ \E pair \in AddedPairs : AddParam(pair)
  \/ RemoveParam
  \/ Verify

SpecParams == Init /\ [][NextParams]_vars

\* ------------------------------------------------------------- a second key
\* Keys of a second signer: other bytes, one byte more, the most bytes, and
\* the signing key followed by zero bytes.
SigningKey == Key(MinKeyLen, 1)
OtherKeys ==
  { Key(MinKeyLen, 0), Key(MinKeyLen + 1, 1), Key(MaxKeyLen, 1),
    [SigningKey EXCEPT ![1] = 0], [SigningKey EXCEPT ![MinKeyLen] = 0],
    SigningKey \o <<0>>, SigningKey \o Key(MaxKeyLen - MinKeyLen, 0) }

\* s2 := New(algo, key): the URL signed by the first signer is handed to a
\* second signer, built over another key with the same algorithm.
NewVerifier(key) ==
  /\ CanTamper
  /\ keyBytes = newKey
  /\ key # newKey
  /\ KeyLenOK(key)
  /\ keyBytes' = key
  /\ tamper' = "key"
  /\ UNCHANGED <<signer, newPanicked, clock, input, signed, u, origin, calls,
               newKey, procs, ctxs, envVars, passVars, httpVars, mem,
               logVars>>

\* URLs signed under one key and verified under another.
NextKeys ==
  \/ New("sha256", SigningKey)
  \/ \E urlString \in SignInputs, duration \in Durations :
       Sign(urlString, duration)
  \/ ParseSigned
  \/ \E key \in OtherKeys : NewVerifier(key)
  \/ Tick
  \/ Verify

SpecKeys == Init /\ [][NextKeys]_vars

\* ------------------------------------------------------------------- logger
\* Package logger, LogConfig.Setup with Output "file": the close function it
\* returns, called by several goroutines.  once is the sync.Once (done, and
\* the goroutine that holds its mutex, 0 for none); file is the log file
\* (what was written to it, whether it is open, the calls of Close); buffer
\* is the bufio.Writer (the bytes not yet written, the calls of Flush); events
\* lists the calls of Flush and Close on the two in their order.
NumClosers == 2
Closers == 1..NumClosers

\* Each goroutine calls the close function up to this many times.
MaxCloseCalls == 2

\* The logger writes up to this many records before the first close.
MaxRecords == 2

NoHolder == 0

InitLog ==
  /\ keyBytes = <<>>
  /\ signer = NoSigner
  /\ newPanicked = FALSE
  /\ clock = MinClock
  /\ input = NoInput
  /\ signed = NoOutput
  /\ u = NoURL
  /\ origin = "none"
  /\ tamper = "none"
  /\ calls = <<>>
  /\ newKey = <<>>
  /\ procs = NoProcs
  /\ ctxs = NoCtxs
  /\ env = NoEnv
  /\ got = NoGot
  /\ NoPasswordRun
  /\ NoHTTPRun
  /\ NoMemRun
  /\ once = [done |-> FALSE, m |-> NoHolder]
  /\ file = [data |-> <<>>, open |-> TRUE, closes |-> 0, events |-> <<>>]
  /\ buffer = [data |-> <<>>, flushes |-> 0, err |-> FALSE]
  /\ closers = [g \in Closers |-> [pc |-> "idle", calls |-> 0]]

\* logger.Info(...): the handler writes a record to the bufio.Writer, which
\* keeps it (the records are far smaller than the 32 KiB of the buffer).
LogWrite ==
  /\ \A g \in Closers : closers[g].pc = "idle" /\ closers[g].calls = 0
  /\ Len(buffer.data) < MaxRecords
  /\ buffer' = [buffer EXCEPT !.data = Append(@, "record")]
  /\ UNCHANGED <<signerVars, envVars, passVars, httpVars, mem, once, file,
               closers>>

\* Variant: the function is run by every call (no sync.Once).
Undone_Always(o) == TRUE

\* sync.Once: the function has not been run to its end (o.done.Load() == 0).
Undone(o) == ~o.done

\* go closer(): var closeErr error; once.Do(...)
CallCloser(g) ==
  /\ closers[g].pc = "idle"
  /\ closers[g].calls < MaxCloseCalls
  /\ closers' = [closers EXCEPT ![g].pc = "do"]
  /\ UNCHANGED <<signerVars, envVars, passVars, httpVars, mem, once, file,
               buffer>>

\* once.Do: the fast path reads done and returns when the function was run.
Do(g) ==
  /\ closers[g].pc = "do"
  /\ closers' = [closers EXCEPT ![g].pc = IF Undone(once) THEN "doSlow"
                                          ELSE "return"]
  /\ UNCHANGED <<signerVars, envVars, passVars, httpVars, mem, once, file,
               buffer>>

\* once.doSlow: o.m.Lock(), then done is read again under the mutex.
DoSlow(g) ==
  /\ closers[g].pc = "doSlow"
  /\ once.m = NoHolder
  /\ once' = [once EXCEPT !.m = g]
  /\ closers' = [closers EXCEPT ![g].pc = IF Undone(once) THEN "flush"
                                          ELSE "unlock"]
  /\ UNCHANGED <<signerVars, envVars, passVars, httpVars, mem, file, buffer>>

\* err = buffer.Flush(): the bytes of the buffer are written to the file, or
\* the write fails (always on a closed file) and the error is logged.
Flush(g) ==
  /\ closers[g].pc = "flush"
  /\ \E ok \in {b \in BOOLEAN : b => file.open /\ ~buffer.err} :
       IF ok
       THEN /\ file' = [file EXCEPT !.data = @ \o buffer.data,
                                    !.events = Append(@, "Flush")]
            /\ buffer' = [buffer EXCEPT !.data = <<>>, !.flushes = @ + 1]
       ELSE /\ file' = [file EXCEPT !.events = Append(@, "Flush")]
            /\ buffer' = [buffer EXCEPT !.err = buffer.data # <<>>,
                                        !.flushes = @ + 1]
  /\ closers' = [closers EXCEPT ![g].pc = "close"]
  /\ UNCHANGED <<signerVars, envVars, passVars, httpVars, mem, once>>

\* closeErr = file.Close()
Close(g) ==
  /\ closers[g].pc = "close"
  /\ file' = [file EXCEPT !.open = FALSE, !.closes = @ + 1,
                          !.events = Append(@, "Close")]
  /\ closers' = [closers EXCEPT ![g].pc = "store"]
  /\ UNCHANGED <<signerVars, envVars, passVars, httpVars, mem, once, buffer>>

\* The function has returned: defer o.done.Store(1)
Store(g) ==
  /\ closers[g].pc = "store"
  /\ once' = [once EXCEPT !.done = TRUE]
  /\ closers' = [closers EXCEPT ![g].pc = "unlock"]
  /\ UNCHANGED <<signerVars, envVars, passVars, httpVars, mem, file, buffer>>

\* defer o.m.Unlock()
Unlock(g) ==
  /\ closers[g].pc = "unlock"
  /\ once' = [once EXCEPT !.m = NoHolder]
  /\ closers' = [closers EXCEPT ![g].pc = "return"]
  /\ UNCHANGED <<signerVars, envVars, passVars, httpVars, mem, file, buffer>>

\* return closeErr
Return(g) ==
  /\ closers[g].pc = "return"
  /\ closers' = [closers EXCEPT ![g].pc = "idle", ![g].calls = @ + 1]
  /\ UNCHANGED <<signerVars, envVars, passVars, httpVars, mem, once, file,
               buffer>>

NextLog ==
  \/ LogWrite
  \/ \E g \in Closers : CallCloser(g)
  \/ \E g \in Closers : Do(g)
  \/ \E g \in Closers : DoSlow(g)
  \/ \E g \in Closers : Flush(g)
  \/ \E g \in Closers : Close(g)
  \/ \E g \in Closers : Store(g)
  \/ \E g \in Closers : Unlock(g)
  \/ \E g \in Closers : Return(g)

SpecLog == InitLog /\ [][NextLog]_vars

\* ------------------------------------------------------------------- claims
\* The URL object a caller gets by parsing what Sign returned.
SignedURL == Parse(signed.out).u

\* The first Verify call on the URL object has returned.
Verified == Len(calls) >= 1

\* The raw pairs of a URL's query whose key is `signature`.
IsSignaturePair(pair) == CutBefore(pair, "=") = Signature
SignaturePairs(url) == SelectSeq(SplitPairs(url.RawQuery), IsSignaturePair)

\* C1: round trip.  For every URL string Sign can parse and every duration
\* D >= 0, Verify of the parsed result of Sign, at the clock value Sign
\* read, returns no error.
C1_RoundTrip ==
  (origin = "signed" /\ tamper = "none" /\ Verified
     /\ input.dur >= 0 /\ calls[1].now = input.t)
    => calls[1].err = ErrNil

\* C2: tamper sensitivity.  After Sign, changing the value of one query
\* parameter other than `signature` makes Verify return ErrInvalidSignature.
C2_TamperValue ==
  (origin = "signed" /\ tamper = "value" /\ Verified)
    => calls[1].err = ErrInvalidSignature

\* C3: the signature covers the whole URL.  Changing the scheme, the host or
\* the path of a signed URL, its query string kept, makes Verify return
\* ErrInvalidSignature.
C3_WholeURL ==
  (origin = "signed" /\ tamper \in {"scheme", "host", "path"} /\ Verified)
    => calls[1].err = ErrInvalidSignature

\* C4: expiry boundary.  For a URL signed at clock value t with duration
\* D > 0, Verify at clock value t + D returns no error and Verify at a later
\* clock value returns ErrExpired.
C4_ExpiryBoundary ==
  (origin = "signed" /\ tamper = "none" /\ Verified /\ input.dur > 0)
    => /\ calls[1].now = input.t + input.dur => calls[1].err = ErrNil
       /\ calls[1].now > input.t + input.dur => calls[1].err = ErrExpired

\* C5: no-expiry persistence.  Sign(U, 0) returns a URL without an `expires`
\* parameter, and Verify of it never returns ErrExpired, however far the
\* clock has advanced.
C5_NoExpiry ==
  (input.called /\ ~signed.err /\ input.dur = 0)
    => /\ Expiration \notin DOMAIN Query(SignedURL)
       /\ (origin = "signed" /\ tamper = "none" /\ Verified)
            => calls[1].err # ErrExpired

\* C6: New returns a signer for every key of 32 to 64 bytes and panics,
\* returning none, for every shorter or longer key.
C6_KeyLength ==
  (signer.ok \/ newPanicked)
    => /\ signer.ok <=> (Len(keyBytes) >= 32 /\ Len(keyBytes) <= 64)
       /\ newPanicked <=> (Len(keyBytes) < 32 \/ Len(keyBytes) > 64)

C6_Witness == signer.ok /\ Len(keyBytes) = 64

\* C7: Verify returns ErrMissingSignature when the URL has no `signature`
\* parameter or the value of that parameter is empty, with or without an
\* `expires` parameter.
MissingSignature(url) ==
  \/ SignaturePairs(url) = <<>>
  \/ CutAfter(SignaturePairs(url)[1], "=") = <<>>

C7_MissingSignature ==
  \A i \in 1..Len(calls) :
    MissingSignature(calls[i].before) => calls[i].err = ErrMissingSignature

C7_Witness ==
  /\ Verified
  /\ SignaturePairs(calls[1].before) # <<>>
  /\ MissingSignature(calls[1].before)
  /\ Expiration \in DOMAIN Query(calls[1].before)
  /\ calls[1].err = ErrMissingSignature

\* C8: a `signature` value that is not empty and is not unpadded URL-safe
\* base64 makes Verify return ErrInvalidSignature, the error of a signature
\* that does not match, with or without an `expires` parameter.
MalformedSignature(url) ==
  /\ SignaturePairs(url) # <<>>
  /\ LET value == CutAfter(SignaturePairs(url)[1], "=")
     IN  /\ value # <<>>
         /\ \/ \E i \in 1..Len(value) : value[i] \notin B64Set
            \/ Len(value) % 4 = 1

C8_MalformedSignature ==
  \A i \in 1..Len(calls) :
    MalformedSignature(calls[i].before)
      => calls[i].err = ErrInvalidSignature

C8_Witness ==
  /\ Verified
  /\ MalformedSignature(calls[1].before)
  /\ Expiration \in DOMAIN Query(calls[1].before)
  /\ calls[1].err = ErrInvalidSignature

\* C9: Verify is a pure function of its input.  It leaves the URL object it
\* was given unchanged, so a second Verify of the same object under the same
\* clock value returns what the first returned.
C9_VerifyPure ==
  /\ \A i \in 1..Len(calls) : calls[i].after = calls[i].before
  /\ (Len(calls) = 2 /\ calls[1].now = calls[2].now)
       => calls[2].err = calls[1].err

PairsOfKey(pairs, key) ==
  SelectSeq(pairs, LAMBDA pair : CutBefore(pair, "=") = key)

\* The reordering kept the relative order of the pairs that share a key.
KeepsOrderWithinKeys(before, after) ==
  \A i \in 1..Len(before) :
    PairsOfKey(before, CutBefore(before[i], "="))
      = PairsOfKey(after, CutBefore(before[i], "="))

IsExpirationPair(pair) == CutBefore(pair, "=") = Expiration
ExpirationPairs(url) == SelectSeq(SplitPairs(url.RawQuery), IsExpirationPair)

\* C11: for every duration D # 0 the URL Sign returns carries one `expires`
\* parameter, whose value parses as an instant equal to the clock value the
\* call read plus D.
C11_ExpiresValue ==
  (input.called /\ ~signed.err /\ ~signed.panic /\ input.dur # 0)
    => /\ Len(ExpirationPairs(SignedURL)) = 1
       /\ LET value == QueryUnescape(CutAfter(ExpirationPairs(SignedURL)[1], "="))
          IN  /\ TimeParseOK(value)
              /\ TimeParse(value) = input.t + input.dur

C11_Witness ==
  /\ input.called
  /\ ~signed.err
  /\ input.dur < 0
  /\ Expiration \in DOMAIN Query(Parse(input.url).u)
  /\ Get(Query(SignedURL), Expiration) = Format(input.t + input.dur)

\* C12: when the input string cannot be parsed as a URL, Sign returns the
\* empty string and an error and does not panic, whatever the signer.
C12_SignBadURL ==
  (input.called /\ Parse(input.url).err)
    => signed = [err |-> TRUE, out |-> <<>>, panic |-> FALSE]

C12_Witness ==
  /\ input.called
  /\ Parse(input.url).err
  /\ signer.algo = "md5"
  /\ signed.err
  /\ signed.out = <<>>

\* Verify decodes the signature of the URL and goes on to hash the URL.
NeedsHash(url) == ~MissingSignature(url) /\ ~MalformedSignature(url)

\* The signature of the URL is the tag, under the signer's key, of the URL
\* without its signature and with its query in canonical form.
ValidSignature(url) ==
  /\ NeedsHash(url)
  /\ DecodeString(Get(Query(url), Signature))
       = HMACSum(keyBytes,
                 UnsafeBytes(String([url EXCEPT !.RawQuery =
                                       Encode(Del(Query(url), Signature))])))

\* The value of `expires` is not empty and is no instant.
BadExpires(url) ==
  /\ Get(Query(url), Expiration) # <<>>
  /\ ~TimeParseOK(Get(Query(url), Expiration))

C14_ParseError ==
  (origin = "selfsigned" /\ Verified /\ BadExpires(calls[1].before)
     /\ DOMAIN Query(calls[1].before) \ {Expiration, Signature} # {})
    => calls[1].err \notin { ErrNil, Panic, ErrMissingSignature,
                             ErrInvalidSignature, ErrExpired }

\* C18: with a fixed clock, Verify of what Sign(U, D) returned for a
\* duration D < 0 returns ErrExpired.
C18_NegativeDuration ==
  (origin = "signed" /\ tamper = "none" /\ Verified
     /\ input.dur < 0 /\ calls[1].now = input.t)
    => calls[1].err = ErrExpired

\* The names ParseHasher has a case for.
KnownAlgos == { "sha256", "sha512/256", "sha3-256", "sha3-512", "blake2b" }

\* C15: New with an algorithm name outside the supported set and a key of
\* valid length returns a signer; each Sign and each Verify that gets as far
\* as needing a hash context panics, the first and every later one.
C15_LazyFailure ==
  /\ Len(newKey) \in MinKeyLen..MaxKeyLen => ~newPanicked
  /\ (signer.ok /\ signer.algo \notin KnownAlgos)
       => /\ (input.called /\ ~Parse(input.url).err) => signed.panic
          /\ \A i \in 1..Len(calls) :
               NeedsHash(calls[i].before) => calls[i].err = Panic

C15_Witness ==
  /\ signer.ok
  /\ signer.algo = "md5"
  /\ Verified
  /\ NeedsHash(calls[1].before)
  /\ calls[1].err = Panic

\* The names the package documentation lists as supported.
DocumentedAlgos ==
  { "sha256", "sha512/256", "sha3-256", "sha3-512", "blake2b-256",
    "blake2b-512" }

\* C19: with each algorithm name the documentation lists and a key of valid
\* length, Sign and Verify complete without panicking (an `expires` that is
\* no instant set aside).
C19_DocumentedAlgos ==
  (signer.ok /\ signer.algo \in DocumentedAlgos)
    => /\ ~signed.panic
       /\ \A i \in 1..Len(calls) :
            (LET value == Get(Query(calls[i].before), Expiration)
             IN  value = <<>> \/ TimeParseOK(value))
              => calls[i].err # Panic

\* C17: the key is fixed when New returns.  After the caller has written to
\* the slice it passed, Sign still returns what it returns under the bytes
\* the slice had at New, and Verify accepts what it accepts under them.
C17_KeyOwned ==
  /\ (input.called /\ ~signed.err)
       => signed = SignOp([algo |-> signer.algo, key |-> newKey],
                          input.t, input.url, input.dur)
  /\ \A i \in 1..Len(calls) :
       calls[i].err = VerifyOp([algo |-> signer.algo, key |-> newKey],
                               calls[i].now, calls[i].before).err

\* C16: concurrent Sign and Verify calls on one signer.  In every
\* interleaving each call returns what it returns when it runs alone at the
\* same clock value, and the key, the hash factory and the clock of the
\* signer stay as they were.
C16_Concurrent ==
  procs # NoProcs
    => /\ keyBytes = newKey
       /\ signer = [ok |-> TRUE, algo |-> "sha256"]
       /\ clock = MinClock
       /\ \A p \in Procs :
            procs[p].pc = "done"
              => procs[p].ret =
                   IF procs[p].call.op = "Sign"
                   THEN SignOp([algo |-> "sha256", key |-> newKey], MinClock,
                               procs[p].call.url, procs[p].call.dur)
                   ELSE VerifyOp([algo |-> "sha256", key |-> newKey],
                                 MinClock, procs[p].call.u)

C16_Witness ==
  /\ procs # NoProcs
  /\ procs[1].pc = "done"
  /\ procs[1].call.op = "Verify"
  /\ procs[1].ret.err = ErrNil
  /\ procs[2].pc = "sum"
  /\ procs[2].call.op = "Sign"

\* A decimal integer: digits, after at most one sign.
AllDigits(str) == str # <<>> /\ \A i \in 1..Len(str) : IsDigit(str[i])
DecimalInteger(str) ==
  \/ AllDigits(str)
  \/ str # <<>> /\ str[1] \in {"+", "-"} /\ AllDigits(Tail(str))

\* The number a decimal integer denotes.
RECURSIVE DigitsValue(_)
DigitsValue(str) ==
  IF str = <<>> THEN 0
  ELSE (Ord[str[1]] - 48) * 10 ^ (Len(str) - 1) + DigitsValue(Tail(str))
DecimalValue(str) ==
  IF str[1] = "-" THEN 0 - DigitsValue(Tail(str))
  ELSE IF str[1] = "+" THEN DigitsValue(Tail(str))
  ELSE DigitsValue(str)

\* The number is one of the values of the type of that size.
Fits(n, isSigned, bits) ==
  IF isSigned THEN n >= 0 - 2 ^ (bits - 1) /\ n <= 2 ^ (bits - 1) - 1
  ELSE n >= 0 /\ n <= 2 ^ bits - 1

\* C20: GetIntEnv[T] and GetUintEnv[T] return the default when the variable
\* is missing, the decimal value of the variable when it is a decimal integer
\* that fits T, and panic otherwise; no wrapped or truncated value comes back.
C20_EnvInt ==
  got.called
    => IF ~env.exists THEN ~got.panic /\ got.val = got.def
       ELSE IF DecimalInteger(env.value)
               /\ Fits(DecimalValue(env.value), got.signed, got.bits)
       THEN ~got.panic /\ got.val = DecimalValue(env.value)
       ELSE got.panic

\* C20 (amended): as C20, a decimal integer being, for GetUintEnv, a string
\* of digits without a sign: GetUintEnv panics on a value that carries a
\* sign, whatever number it denotes.
C20_EnvIntSign ==
  got.called
    => IF ~env.exists THEN ~got.panic /\ got.val = got.def
       ELSE IF /\ DecimalInteger(env.value)
               /\ got.signed \/ AllDigits(env.value)
               /\ Fits(DecimalValue(env.value), got.signed, got.bits)
       THEN ~got.panic /\ got.val = DecimalValue(env.value)
       ELSE got.panic

C20_Witness ==
  /\ got.called
  /\ ~got.signed
  /\ env.exists
  /\ env.value = <<"+", "1">>
  /\ got.panic

\* C21: when the value of the variable is not a Go duration string but is a
\* base-10 integer n that fits int64, GetDurationEnv returns a duration of
\* exactly n seconds, that is n * 1000000000 nanoseconds.
C21_SecondsFallback ==
  got.called /\ env.exists /\ ParseDuration(env.value).err
    /\ DecimalInteger(env.value) /\ ParseInt64(env.value).err = "nil"
    => /\ ~got.panic
       /\ got.val = Int64(ParseInt64(env.value).n.neg,
                          Scale(ParseInt64(env.value).n.mag, Second))

\* The characters of a string that are in a set of characters.
Among(str, set) == { k \in 1..Len(str) : \E c \in 1..Len(set) : str[k] = set[c] }

\* C22: GenerateRandomPassword(n) returns, whatever the reader delivers, a
\* password of length n when n >= 8 and of length 12 when n < 8, with at
\* least one lowercase letter, one uppercase letter, one digit and one
\* special character in it after the shuffle.
C22_Password ==
  pw.pc = "done" /\ ~pw.err
    => /\ Len(pw.password) = IF pw.arg >= 8 THEN pw.arg ELSE 12
       /\ \A set \in 1..4 : Among(pw.password, charSets[set]) # {}

\* A password that was shuffled: a call with a negative length, the special
\* character no longer in the fourth place.
C22_Witness ==
  /\ pw.pc = "done"
  /\ ~pw.err
  /\ pw.arg < 0
  /\ Len(pw.password) = 12
  /\ 4 \notin Among(pw.password, special)

\* C23: when the data given to JSON.Encode cannot be marshalled, the
\* response keeps the status that was requested, has the Content-Type
\* application/json and has the body {}.
C23_MarshalError ==
  /\ Len(rr.calls) = 1
  /\ rr.calls[1].encoder = "JSON"
  /\ rr.calls[1].op \in {"Encode", "OK", "Created"}
  /\ ~Marshalable(rr.calls[1].data)
  => /\ rr.Code = rr.calls[1].status
     /\ rr.HeaderMap.ContentType = "application/json"
     /\ rr.snapHeader.ContentType = "application/json"
     /\ rr.Body = <<Raw("{}")>>

C23_Witness ==
  /\ Len(rr.calls) = 1
  /\ rr.calls[1].op = "Encode"
  /\ rr.calls[1].status = 404
  /\ ~Marshalable(rr.calls[1].data)
  /\ rr.Code = 404

C29_CookiesOwned ==
  \A r \in DOMAIN resps : Elements(resps[r].cookies) = resps[r].want

\* The largest unit among TiB, GiB, MiB, KiB, B that does not exceed the
\* size (B for the size zero), with its suffix.
LargestUnit(m) ==
  IF ~NatLess(m, UnitSize(TiB)) THEN [unit |-> TiB, suffix |-> <<"T", "i", "B">>]
  ELSE IF ~NatLess(m, UnitSize(GiB))
  THEN [unit |-> GiB, suffix |-> <<"G", "i", "B">>]
  ELSE IF ~NatLess(m, UnitSize(MiB))
  THEN [unit |-> MiB, suffix |-> <<"M", "i", "B">>]
  ELSE IF ~NatLess(m, UnitSize(KiB))
  THEN [unit |-> KiB, suffix |-> <<"K", "i", "B">>]
  ELSE [unit |-> ByteUnit, suffix |-> <<"B">>]

\* m / unit rounded to the nearest integer, one half rounding up: one more
\* than the quotient when 2 * m reaches (2 * quotient + 1) * unit.
RoundHalfUp(m, unit) ==
  IF NatLess(MulAdd(m, 2, 0), Scale(MulAdd(DivUnit(m, unit), 2, 1), unit))
  THEN Small(DivUnit(m, unit))
  ELSE Small(DivUnit(m, unit)) + 1

\* C25: MemorySize.String prints the size in the largest unit among TiB, GiB,
\* MiB, KiB, B that does not exceed it, as size/unit rounded to the nearest
\* integer, one half rounding up, followed by the suffix of the unit.
C25_MemoryString ==
  mem.called
    => mem.str = Itoa(RoundHalfUp(mem.size, LargestUnit(mem.size).unit))
                   \o LargestUnit(mem.size).suffix

\* The `expires` of the URL is an instant before the clock value.
ExpiryPassed(url, now) ==
  /\ TimeParseOK(Get(Query(url), Expiration))
  /\ TimeParse(Get(Query(url), Expiration)) < now

\* C26: Verify checks the signature before the expiry.  It returns ErrExpired
\* only for a URL whose signature matched; a URL whose expiry has passed and
\* whose signature is missing, undecodable or wrong gets ErrMissingSignature
\* or ErrInvalidSignature, and the clock is not read for it.
C26_SignatureBeforeExpiry ==
  \A i \in 1..Len(calls) :
    /\ calls[i].err = ErrExpired => ValidSignature(calls[i].before)
    /\ (ExpiryPassed(calls[i].before, calls[i].now)
          /\ ~ValidSignature(calls[i].before))
         => /\ calls[i].err \in {ErrMissingSignature, ErrInvalidSignature}
            /\ ~calls[i].read

C26_Witness ==
  /\ origin = "signed"
  /\ tamper = "value"
  /\ Verified
  /\ ExpiryPassed(calls[1].before, calls[1].now)
  /\ NeedsHash(calls[1].before)
  /\ ~ValidSignature(calls[1].before)
  /\ calls[1].err = ErrInvalidSignature
  /\ ~calls[1].read

\* C27: integrity of the parameter set.  Adding a query parameter, under any
\* name and at any position, to a signed URL, or removing one other than
\* `signature`, makes Verify return an error.
C27_ParameterSet ==
  (origin = "signed" /\ tamper \in {"add", "remove"})
    => \A i \in 1..Len(calls) : calls[i].err # ErrNil

\* C28: key separation.  A URL signed by a signer built with the key K1 is
\* rejected with ErrInvalidSignature by a signer built with the same
\* algorithm and a different key K2, for every URL and duration.
C28_KeySeparation ==
  (origin = "signed" /\ tamper = "key" /\ keyBytes # newKey)
    => \A i \in 1..Len(calls) : calls[i].err = ErrInvalidSignature

\* C30: the close function LogConfig.Setup returns for file output flushes
\* the write buffer and then closes the file exactly once, however many
\* times and from however many goroutines it is called: no call closes the
\* file a second time or closes it before the flush, and once a call has
\* returned the flush and the close have taken place.
C30_CloseOnce ==
  /\ file.closes <= 1
  /\ buffer.flushes <= 1
  /\ file.events \in {<<>>, <<"Flush">>, <<"Flush", "Close">>}
  /\ (\E g \in Closers : closers[g].calls >= 1 \/ closers[g].pc = "return")
       => file.events = <<"Flush", "Close">>

C30_Witness ==
  /\ \A g \in Closers : closers[g].calls = MaxCloseCalls
  /\ file.events = <<"Flush", "Close">>
  /\ file.data = <<"record", "record">>
  /\ ~file.open

====
